---- MODULE Spec2Model ----
(***************************************************************************)
(* System Spec Analyzer: the metrics-collection worker (SystemInfoWorker)  *)
(* and the parts of the window (MainWindow) that start it and receive its  *)
(* signals.  Source: src/system_spec_analyzer.py.                          *)
(*                                                                         *)
(* Conventions                                                             *)
(*   - a Python dict with a varying key set is a function whose domain is  *)
(*     the set of keys; the empty dict {} and the empty list [] are <<>>;  *)
(*   - a text that the code searches, splits or lower-cases is a sequence  *)
(*     of one-character strings; other texts are strings;                  *)
(*   - Python compares 0 == 0.0 as equal, so floats and ints are integers; *)
(*   - None in a place that otherwise holds a dict is the record None.     *)
(***************************************************************************)
EXTENDS Integers, Sequences, FiniteSets, TLC

VARIABLES
    host,          \* what the OS and the helper programs report (fixed per behaviour)
    plan,          \* which data source misbehaves in which step (fixed per behaviour)
    workers,       \* the SystemInfoWorker threads started so far, in start order
                   \* (pc: position; info: the snapshot dict; log: signals emitted;
                   \* exc: exception that left gather_system_info; delivered: slot ran;
                   \* touched: parts of the snapshot changed by someone after emission)
    is_loading,    \* MainWindow.is_loading
    timer_active,  \* MainWindow.refresh_timer.isActive()
    refresh_timer, \* the timer besides: [interval: its period in ms, 0 before the first
                   \* start(); starts: the calls of start() so far]
    loading_widget, \* LoadingWidget: [percentage: the value of the progress bar; fresh:
                   \* update_progress was not called since the loading screen was shown]
    system_info,   \* MainWindow.system_info
    call           \* one of the worker's computations invoked on its own with chosen
                   \* inputs: [op, args, returned, result]; NoCall inside the window

vars == <<host, plan, workers, is_loading, timer_active, refresh_timer, loading_widget, system_info, call>>

(***************************************************************************)
(* Bounds                                                                  *)
(***************************************************************************)
MaxRuns == 3        \* workers started in one behaviour
MaxFaults == 1      \* steps with a misbehaving source, single-run specification

None == [none |-> TRUE]

\* no computation invoked on its own
NoCall == [op |-> "none"]

(***************************************************************************)
(* Texts as character sequences                                            *)
(***************************************************************************)
UpperChars == <<"A","B","C","D","E","F","G","H","I","J","K","L","M",
                "N","O","P","Q","R","S","T","U","V","W","X","Y","Z">>
LowerChars == <<"a","b","c","d","e","f","g","h","i","j","k","l","m",
                "n","o","p","q","r","s","t","u","v","w","x","y","z">>

\* str.lower() on one character
LowerChar(c) ==
    IF \E i \in 1..26 : UpperChars[i] = c
    THEN LowerChars[CHOOSE i \in 1..26 : UpperChars[i] = c]
    ELSE c

\* str.lower()
Lower(s) ==
    CHOOSE r \in {[i \in 1..Len(x) |-> LowerChar(x[i])] : x \in {s}} : TRUE

\* needle occurs in s at position i
OccursAt(needle, s, i) ==
    /\ i >= 1
    /\ i + Len(needle) - 1 <= Len(s)
    /\ \A j \in 1..Len(needle) : s[i + j - 1] = needle[j]

\* needle in s
Contains(needle, s) ==
    \E n \in {needle} : \E x \in {s} : \E i \in 1..(Len(x) + 1) : OccursAt(n, x, i)

\* s.startswith(prefix)
StartsWith(s, prefix) == OccursAt(prefix, s, 1)

\* s[i:] with the leftmost non-overlapping occurrences of old left out
RECURSIVE RemoveFrom(_, _, _)
RemoveFrom(s, old, i) ==
    IF i > Len(s) THEN <<>>
    ELSE IF OccursAt(old, s, i)
         THEN RemoveFrom(s, old, i + Len(old))
         ELSE <<s[i]>> \o RemoveFrom(s, old, i + 1)

\* str.replace(old, '')
Remove(s, old) == CHOOSE r \in {RemoveFrom(x, old, 1) : x \in {s}} : TRUE

IsSpace(c) == c \in {" ", "\t", "\n"}

\* str.strip()
Strip(s) ==
    CHOOSE r \in
        {LET keep == {i \in 1..Len(x) : ~IsSpace(x[i])}
         IN  IF keep = {} THEN <<>>
             ELSE SubSeq(x, CHOOSE i \in keep : \A j \in keep : i <= j,
                            CHOOSE i \in keep : \A j \in keep : j <= i) : x \in {s}} : TRUE

\* s[i:] with every run of whitespace that is followed by a word turned into one
\* blank and the other whitespace left out
RECURSIVE SqueezeFrom(_, _)
SqueezeFrom(s, i) ==
    IF i > Len(s) THEN <<>>
    ELSE IF IsSpace(s[i])
         THEN IF i < Len(s) /\ ~IsSpace(s[i + 1])
              THEN <<" ">> \o SqueezeFrom(s, i + 1)
              ELSE SqueezeFrom(s, i + 1)
         ELSE <<s[i]>> \o SqueezeFrom(s, i + 1)

\* ' '.join(s.split()): the words of s with one blank between them
JoinSplit(s) ==
    CHOOSE r \in
        {LET words == {i \in 1..Len(x) : ~IsSpace(x[i])}
         IN  IF words = {} THEN <<>>
             ELSE SqueezeFrom(x, CHOOSE i \in words : \A j \in words : i <= j) :
         x \in {s}} : TRUE

\* s.split(sep)[-1] for a one-character separator
LastComponent(s, sep) ==
    CHOOSE r \in
        {LET at == {i \in 1..Len(x) : x[i] = sep}
         IN  IF at = {} THEN x
             ELSE SubSeq(x, (CHOOSE i \in at : \A j \in at : j <= i) + 1, Len(x)) :
         x \in {s}} : TRUE

(***************************************************************************)
(* The host: what the OS interfaces and helper programs report.  Sizes are *)
(* in GB, counters in the units the snapshot shows.                        *)
(***************************************************************************)
EthZero == <<"e","t","h","0">>
LoName == <<"l","o">>
VBoxName == <<"V","i","r","t","u","a","l","B","o","x">>
WifiName == <<"W","i","-","F","i">>
LoopAddr == <<"1","2","7",".","0",".","0",".","1">>
LanAddr == <<"1","0",".","0",".","0",".","5">>
Addr6 == <<"f","e","8","0",":",":","1">>
MacAddr == <<"a","a",":","b","b">>
DevSda1 == <<"/","d","e","v","/","s","d","a","1">>
DevSdb1 == <<"/","d","e","v","/","s","d","b","1">>
DevC == <<"C",":","\\">>
DevD == <<"D",":","\\">>
DevA == <<"A",":","\\">>
OptsRw == <<"r","w">>
OptsRo == <<"r","o">>
OptsFixed == <<"r","w",",","f","i","x","e","d">>
OptsRemovable == <<"r","w",",","r","e","m","o","v","a","b","l","e">>
OptsCdrom == <<"r","o",",","c","d","r","o","m">>
FamInet == <<"A","F","_","I","N","E","T">>
FamInet6 == <<"A","F","_","I","N","E","T","6">>
FamLink == <<"A","F","_","L","I","N","K">>
FamPacket == <<"A","F","_","P","A","C","K","E","T">>
IntelBrand == <<"I","n","t","e","l","(","R",")"," ","C","o","r","e","(","T","M",")"," ","i","7">>
AmdPlain == <<"A","M","D"," "," ","R","y","z","e","n"," ","5"," ">>
AppleBrand == <<"A","p","p","l","e"," ","M","1">>
VendorIntel == <<"G","e","n","u","i","n","e","I","n","t","e","l">>
VendorAmd == <<"A","u","t","h","e","n","t","i","c","A","M","D">>
VendorApple == <<"A","p","p","l","e">>
UnknownText == <<"U","n","k","n","o","w","n">>
UnknownProcessor == <<"U","n","k","n","o","w","n"," ","P","r","o","c","e","s","s","o","r">>

Part(dev, mnt, fs, opts, total, used) ==
    [device |-> dev, mountpoint |-> mnt, fstype |-> fs, opts |-> opts,
     total |-> total, used |-> used, free |-> total - used]

IoCounter(label, rb, wb, rc, wc) ==
    [label |-> label, read_bytes |-> rb, write_bytes |-> wb,
     read_count |-> rc, write_count |-> wc]

Nic(name, isup, speed, mtu, addrs, has_io) ==
    [name |-> name, isup |-> isup, speed |-> speed, mtu |-> mtu,
     addrs |-> addrs, has_stats |-> TRUE, has_io |-> has_io]

Addr(family, address) == [family |-> family, address |-> address, netmask |-> "255.0.0.0"]

WinLaptop ==
    [platform |-> "Windows", os_release |-> "10", os_build |-> "10.0.19045",
     os_edition |-> "Professional", arch |-> "64bit", hostname |-> "deskpc",
     machine |-> "AMD64", login |-> "alice", env_user |-> "alice",
     boot_time |-> 1000, now |-> 95500,
     mb |-> [manufacturer |-> "ASUS", product |-> "Z790", version |-> "1.0", serial |-> "SN1"],
     has_cpuinfo |-> TRUE, brand |-> IntelBrand, os_processor |-> IntelBrand,
     vendor |-> VendorIntel, cores_physical |-> 4, cores_logical |-> 8,
     has_freq |-> TRUE, freq_current |-> 3, freq_max |-> 4, freq_min |-> 1,
     cpu_usage |-> 37, cpu_per_core |-> <<40, 34>>,
     mem_total |-> 16, mem_used |-> 6, mem_percent |-> 38, swap_total |-> 2, swap_used |-> 1,
     partitions |-> <<Part(DevA, "A:", "FAT", OptsRemovable, 1, 0),
                      Part(DevC, "C:", "NTFS", OptsFixed, 750, 300),
                      Part(DevD, "D:", "UDF", OptsCdrom, 4, 4)>>,
     disk_io |-> <<IoCounter(<<"P","h","y","s","i","c","a","l","D","r","i","v","e","0">>, 5, 3, 50, 30)>>,
     has_gputil |-> TRUE, gpus |-> <<>>, helper_gpu |-> <<"NVIDIA RTX">>,
     nics |-> <<Nic(WifiName, TRUE, 300, 1500, <<Addr(FamInet, LanAddr), Addr(FamLink, MacAddr)>>, TRUE),
                Nic(VBoxName, TRUE, 0, 1500, <<Addr(FamInet, LanAddr)>>, TRUE)>>,
     net_total |-> [bytes_sent |-> 3, bytes_recv |-> 9, packets_sent |-> 30, packets_recv |-> 90],
     has_battery |-> TRUE, battery |-> [percent |-> 80, secsleft |-> 5400, power_plugged |-> FALSE],
     temps |-> <<>>, fans |-> <<>>,
     procs |-> <<"running", "sleeping", "sleeping", "stopped">>,
     has_loadavg |-> FALSE, loadavg |-> <<0, 0, 0>>]

LinuxDesktop ==
    [platform |-> "Linux", os_release |-> "6.1", os_build |-> "#1 SMP",
     os_edition |-> "", arch |-> "64bit", hostname |-> "tux",
     machine |-> "x86_64", login |-> "bob", env_user |-> "bob",
     boot_time |-> 500, now |-> 4100,
     mb |-> [manufacturer |-> "MSI", product |-> "B550", version |-> "2.0", serial |-> "SN2"],
     has_cpuinfo |-> FALSE, brand |-> AmdPlain, os_processor |-> AmdPlain,
     vendor |-> VendorAmd, cores_physical |-> 6, cores_logical |-> 12,
     has_freq |-> FALSE, freq_current |-> 0, freq_max |-> 0, freq_min |-> 0,
     cpu_usage |-> 0, cpu_per_core |-> <<0, 0>>,
     mem_total |-> 8, mem_used |-> 2, mem_percent |-> 25, swap_total |-> 0, swap_used |-> 0,
     partitions |-> <<Part(DevSda1, "/", "ext4", OptsRw, 400, 100),
                      Part(DevSdb1, "/data", "ext4", OptsRw, 2000, 900)>>,
     disk_io |-> <<IoCounter(<<"s","d","a">>, 1, 1, 10, 10),
                   IoCounter(<<"s","d","a","1">>, 2, 2, 20, 20),
                   IoCounter(<<"s","d","b","1">>, 7, 7, 70, 70)>>,
     has_gputil |-> FALSE, gpus |-> <<>>, helper_gpu |-> <<"AMD Radeon">>,
     nics |-> <<Nic(LoName, TRUE, 0, 65536, <<Addr(FamInet, LoopAddr)>>, TRUE),
                Nic(EthZero, TRUE, 1000, 1500,
                    <<Addr(FamInet, LanAddr), Addr(FamInet6, Addr6), Addr(FamPacket, MacAddr)>>, TRUE)>>,
     net_total |-> [bytes_sent |-> 1, bytes_recv |-> 2, packets_sent |-> 10, packets_recv |-> 20],
     has_battery |-> FALSE, battery |-> [percent |-> 0, secsleft |-> 0, power_plugged |-> TRUE],
     temps |-> <<[name |-> "coretemp",
                  readings |-> <<[label |-> "", current |-> 45, high |-> 80, critical |-> 100],
                                 [label |-> "Core 0", current |-> 44, high |-> 80, critical |-> 100]>>],
                 [name |-> "acpitz", readings |-> <<>>]>>,
     fans |-> <<[name |-> "thinkpad", readings |-> <<[label |-> "", current |-> 2100]>>]>>,
     procs |-> <<"sleeping", "running", "running">>,
     has_loadavg |-> TRUE, loadavg |-> <<1234, 567, 89>>]

LinuxServer ==
    [LinuxDesktop EXCEPT
        !.hostname = "srv", !.has_cpuinfo = TRUE, !.mem_total = 64, !.mem_used = 20,
        !.mem_percent = 31, !.cpu_usage = 12, !.cpu_per_core = <<12, 12>>,
        !.partitions = <<Part(DevSda1, "/", "ext4", OptsRw, 400, 100),
                         Part(DevSdb1, "/snap", "squashfs", OptsRo, 0, 0)>>,
        !.has_gputil = TRUE, !.gpus = <<[name |-> "Tesla", memoryTotal |-> 16, memoryUsed |-> 4,
                                        memoryFree |-> 12, load |-> 0, temperature |-> 50]>>,
        !.fans = <<>>]

MacBook ==
    [WinLaptop EXCEPT
        !.platform = "Darwin", !.os_release = "23.1", !.os_build = "Darwin Kernel",
        !.hostname = "mac", !.machine = "arm64", !.brand = AppleBrand,
        !.os_processor = AppleBrand, !.vendor = VendorApple, !.mem_total = 32,
        !.mem_percent = 50, !.mem_used = 16,
        !.partitions = <<Part(DevSda1, "/", "apfs", OptsRw, 1000, 400)>>,
        !.disk_io = <<IoCounter(<<"d","i","s","k","0">>, 1, 1, 1, 1)>>,
        !.has_gputil = FALSE, !.helper_gpu = <<>>,
        !.nics = <<Nic(EthZero, FALSE, 0, 1500, <<Addr(FamInet6, Addr6)>>, FALSE)>>,
        !.battery = [percent |-> 100, secsleft |-> -2, power_plugged |-> TRUE],
        !.has_loadavg = TRUE, !.loadavg = <<2005, 1000, 0>>]

Hosts == {WinLaptop, LinuxDesktop, LinuxServer, MacBook}

(***************************************************************************)
(* Fault plans: per collection step, the data source that misbehaves in    *)
(* this behaviour ("none": every source of the step answers).              *)
(***************************************************************************)
Steps == <<"identity", "uptime", "motherboard", "processor", "memory", "storage",
           "graphics", "network", "battery", "thermal", "fans", "process", "loadavg">>

StepSet == {Steps[i] : i \in 1..Len(Steps)}

FaultsOf(step) ==
    CASE step = "identity"    -> {"system", "win32_edition", "hostname", "machine", "getlogin"}
      [] step = "uptime"      -> {"boot_time"}
      [] step = "motherboard" -> {"nonzero", "missing", "hang"}
      [] step = "processor"   -> {"cpuinfo", "cpu_count", "cpu_freq", "cpu_percent", "cpu_times"}
      [] step = "memory"      -> {"virtual_memory", "swap_memory"}
      [] step = "storage"     -> {"disk_partitions", "disk_usage_1", "disk_usage_2", "disk_io",
                                  "disk_io_denied"}
      [] step = "graphics"    -> {"getGPUs", "nonzero", "missing", "hang"}
      [] step = "network"     -> {"net_if_addrs", "net_io_total"}
      [] step = "battery"     -> {"sensors_battery"}
      [] step = "thermal"     -> {"sensors_temperatures"}
      [] step = "fans"        -> {"sensors_fans"}
      [] step = "process"     -> {"pids", "iter_running", "iter_sleeping"}
      [] step = "loadavg"     -> {"getloadavg"}

NoFault == [s \in StepSet |-> "none"]

SingleFaults == UNION {{<<s, f>> : f \in FaultsOf(s)} : s \in StepSet}

RECURSIVE PlansUpTo(_)
PlansUpTo(n) ==
    IF n = 0 THEN {NoFault}
    ELSE LET P == PlansUpTo(n - 1)
         IN  P \cup {[p EXCEPT ![sf[1]] = sf[2]] : p \in P, sf \in SingleFaults}

FaultySteps(p) == {s \in StepSet : p[s] # "none"}

\* every external helper program hangs
AllHelpersHang == [NoFault EXCEPT !["motherboard"] = "hang", !["graphics"] = "hang"]

\* the first source of every step fails
EveryStepFails ==
    [s \in StepSet |->
        CASE s = "identity"    -> "system"
          [] s = "uptime"      -> "boot_time"
          [] s = "motherboard" -> "missing"
          [] s = "processor"   -> "cpuinfo"
          [] s = "memory"      -> "virtual_memory"
          [] s = "storage"     -> "disk_partitions"
          [] s = "graphics"    -> "getGPUs"
          [] s = "network"     -> "net_if_addrs"
          [] s = "battery"     -> "sensors_battery"
          [] s = "thermal"     -> "sensors_temperatures"
          [] s = "fans"        -> "sensors_fans"
          [] s = "process"     -> "pids"
          [] s = "loadavg"     -> "getloadavg"]

(***************************************************************************)
(* Exceptions and handlers                                                 *)
(***************************************************************************)
AllKinds == {"Exception", "OSError", "PermissionError", "FileNotFoundError",
             "TimeoutExpired", "ZeroDivisionError"}

\* except:
Bare == AllKinds
\* except (PermissionError, OSError): with the subclasses of OSError
OsErrors == {"OSError", "PermissionError", "FileNotFoundError"}

\* the exception a misbehaving source raises
KindOf(fault) ==
    CASE fault \in {"disk_usage_1", "disk_usage_2", "disk_io_denied"} -> "PermissionError"
      [] fault = "missing" -> "FileNotFoundError"
      [] fault = "hang"    -> "TimeoutExpired"
      [] OTHER             -> "Exception"

\* d1.update(d2) on a copy
Upd(info, d) == d @@ info

RECURSIVE ApplyUpTo(_, _, _)
ApplyUpTo(info, groups, n) ==
    IF n = 0 THEN info ELSE Upd(ApplyUpTo(info, groups, n - 1), groups[n])

\* try: the assignment groups in order, the exception `kind` raised where group
\* failAt would be evaluated (0: no exception); except <catch>: handler
TryExcept(info, groups, failAt, kind, catch, handler) ==
    IF failAt = 0
    THEN [info |-> ApplyUpTo(info, groups, Len(groups)), exc |-> "none"]
    ELSE IF kind \in catch
         THEN [info |-> Upd(ApplyUpTo(info, groups, failAt - 1), handler), exc |-> "none"]
         ELSE [info |-> ApplyUpTo(info, groups, failAt - 1), exc |-> kind]

\* a wrong variant of StepCatch: the storage step's outer handler narrowed to the
\* loop's exception tuple (GatherNeverRaises must reject it)
StepCatchNarrow(step) == IF step = "storage" THEN OsErrors ELSE Bare

\* the outermost handler of each step of gather_system_info: a bare except
StepCatch(step) == Bare

(***************************************************************************)
(* gather_system_info, step by step.  Each step maps the snapshot so far   *)
(* to [info |-> the snapshot after the step, exc |-> the exception that    *)
(* leaves the step, "none" if none does].                                  *)
(***************************************************************************)

\* lines 44-72
IdentityStep(info, h, f) ==
    LET win == h.platform = "Windows"
        edition_ok == win /\ f # "win32_edition"
        full == IF win
                THEN IF edition_ok /\ h.os_edition # ""
                     THEN "Windows " \o h.os_release \o " " \o h.os_edition
                     ELSE "Windows " \o h.os_release
                ELSE h.platform \o " " \o h.os_release
        user == IF f = "getlogin"
                THEN (IF h.env_user = "" THEN "Unknown" ELSE h.env_user)
                ELSE h.login
        groups == << [os_name |-> h.platform, os_version |-> h.os_release,
                      os_build |-> h.os_build],
                     IF edition_ok
                     THEN [os_full |-> full, os_edition |-> h.os_edition]
                     ELSE [os_full |-> full],
                     [os_architecture |-> h.arch],
                     [hostname |-> h.hostname],
                     [machine_type |-> h.machine],
                     [username |-> user] >>
        failAt == CASE f = "system"   -> 1
                    [] f = "hostname" -> 4
                    [] f = "machine"  -> 5
                    [] OTHER          -> 0
    IN  TryExcept(info, groups, failAt, KindOf(f), StepCatch("identity"),
                  [os_full |-> "Unknown OS", os_architecture |-> "Unknown",
                   hostname |-> "Unknown", username |-> "Unknown"])

Pad2(n) == IF n < 10 THEN "0" \o ToString(n) ELSE ToString(n)

\* lines 77-88
UptimeStep(info, h, f) ==
    LET secs == h.now - h.boot_time
        days == secs \div 86400
        hours == (secs % 86400) \div 3600
        minutes == ((secs % 86400) % 3600) \div 60
        groups == << [uptime |-> ToString(days) \o " days, " \o Pad2(hours) \o ":" \o Pad2(minutes)],
                     [boot_time |-> "at " \o ToString(h.boot_time)] >>
    IN  TryExcept(info, groups, IF f = "boot_time" THEN 1 ELSE 0, KindOf(f),
                  StepCatch("uptime"), [uptime |-> "Unknown", boot_time |-> "Unknown"])

OrUnknown(text) == IF text = "" THEN "Unknown" ELSE text

\* a wrong variant of UsesBoardHelper: an inventory program queried on every
\* platform (UnknownBoardWithoutHelper must reject it)
UsesBoardHelperAlways(h) == TRUE

\* which platforms query an external inventory program for the motherboard
UsesBoardHelper(h) == h.platform \in {"Windows", "Linux"}

\* lines 422-473; f is the behaviour of the helper program
get_motherboard_info(h, f) ==
    LET unknown == [manufacturer |-> "Unknown", product |-> "Unknown",
                    version |-> "Unknown", serial |-> "Unknown"]
        parsed == IF h.platform = "Windows"
                  THEN [manufacturer |-> OrUnknown(h.mb.manufacturer),
                        product |-> OrUnknown(h.mb.product),
                        serial |-> OrUnknown(h.mb.serial),
                        version |-> OrUnknown(h.mb.version)]
                  ELSE [manufacturer |-> h.mb.manufacturer,
                        product |-> h.mb.product,
                        version |-> h.mb.version]
    IN  IF ~UsesBoardHelper(h) THEN [info |-> unknown, exc |-> "none"]
        ELSE IF f = "nonzero" THEN [info |-> unknown, exc |-> "none"]
        ELSE TryExcept(unknown, <<parsed>>,
                       IF f \in {"missing", "hang"} THEN 1 ELSE 0,
                       KindOf(f), Bare, <<>>)

\* line 93
MotherboardStep(info, h, f) ==
    LET r == get_motherboard_info(h, f)
    IN  IF r.exc = "none"
        THEN [info |-> Upd(info, [motherboard |-> r.info]), exc |-> "none"]
        ELSE [info |-> info, exc |-> r.exc]

\* lines 116-118
CleanProcessorName(raw) ==
    IF Len(raw) = 0 THEN raw
    ELSE Strip(Remove(Remove(Remove(JoinSplit(raw), <<"(","R",")">>),
                             <<"(","T","M",")">>), <<"(","t","m",")">>))

\* lines 98-156
ProcessorStep(info, h, f) ==
    LET raw == IF h.has_cpuinfo THEN h.brand ELSE h.os_processor
        ident == IF h.has_cpuinfo
                 THEN [processor |-> raw, cpu_vendor |-> h.vendor, cpu_family |-> 6,
                       cpu_model |-> 151, cpu_stepping |-> 2,
                       cpu_flags |-> <<"sse", "avx">>, cpu_cache_l1 |-> "Unknown",
                       cpu_cache_l2 |-> "Unknown", cpu_cache_l3 |-> "Unknown"]
                 ELSE [processor |-> raw, cpu_vendor |-> UnknownText, cpu_flags |-> <<>>]
        freq_ok == h.has_freq /\ f # "cpu_freq"
        groups == << ident,
                     [processor |-> CleanProcessorName(raw)],
                     [cpu_cores_physical |-> h.cores_physical,
                      cpu_cores_logical |-> h.cores_logical],
                     [cpu_freq_current |-> IF freq_ok THEN h.freq_current ELSE 0,
                      cpu_freq_max |-> IF freq_ok THEN h.freq_max ELSE 0,
                      cpu_freq_min |-> IF freq_ok THEN h.freq_min ELSE 0],
                     [cpu_usage |-> h.cpu_usage, cpu_usage_per_core |-> h.cpu_per_core],
                     [cpu_times |-> [user |-> 100, system |-> 50, idle |-> 900]] >>
        failAt == CASE f = "cpuinfo" /\ h.has_cpuinfo -> 1
                    [] f = "cpu_count"   -> 3
                    [] f = "cpu_percent" -> 5
                    [] f = "cpu_times"   -> 6
                    [] OTHER             -> 0
    IN  TryExcept(info, groups, failAt, KindOf(f), StepCatch("processor"),
                  [processor |-> UnknownProcessor, cpu_cores_physical |-> 0,
                   cpu_cores_logical |-> 0, cpu_usage |-> 0, cpu_usage_per_core |-> <<>>])

\* a wrong variant of get_memory_capabilities: the thresholds exclusive
\* (MemoryBandsByRam must reject it)
MemoryCapabilitiesExclusive(current_ram_gb, cpu_vendor) ==
    IF current_ram_gb < 4
    THEN [max_capacity_gb |-> "32 GB", memory_type |-> "DDR4",
          max_speed |-> "DDR4-3200", slots_estimated |-> "2-4 slots"]
    ELSE IF current_ram_gb < 8
    THEN [max_capacity_gb |-> "64 GB", memory_type |-> "DDR4",
          max_speed |-> "DDR4-3200", slots_estimated |-> "2-4 slots"]
    ELSE IF current_ram_gb < 16
    THEN [max_capacity_gb |-> "128 GB", memory_type |-> "DDR4/DDR5",
          max_speed |-> "DDR4-3600/DDR5-4800", slots_estimated |-> "4 slots"]
    ELSE IF current_ram_gb < 32
    THEN [max_capacity_gb |-> "256 GB", memory_type |-> "DDR4/DDR5",
          max_speed |-> "DDR5-5600", slots_estimated |-> "4-8 slots"]
    ELSE [max_capacity_gb |-> "512+ GB", memory_type |-> "DDR5/ECC",
          max_speed |-> "DDR5-6400+", slots_estimated |-> "8+ slots"]

\* lines 475-522
get_memory_capabilities(current_ram_gb, cpu_vendor) ==
    LET band ==
            IF current_ram_gb <= 4
            THEN [max_capacity_gb |-> "32 GB", memory_type |-> "DDR4",
                  max_speed |-> "DDR4-3200", slots_estimated |-> "2-4 slots"]
            ELSE IF current_ram_gb <= 8
            THEN [max_capacity_gb |-> "64 GB", memory_type |-> "DDR4",
                  max_speed |-> "DDR4-3200", slots_estimated |-> "2-4 slots"]
            ELSE IF current_ram_gb <= 16
            THEN [max_capacity_gb |-> "128 GB", memory_type |-> "DDR4/DDR5",
                  max_speed |-> "DDR4-3600/DDR5-4800", slots_estimated |-> "4 slots"]
            ELSE IF current_ram_gb <= 32
            THEN [max_capacity_gb |-> "256 GB", memory_type |-> "DDR4/DDR5",
                  max_speed |-> "DDR5-5600", slots_estimated |-> "4-8 slots"]
            ELSE [max_capacity_gb |-> "512+ GB", memory_type |-> "DDR5/ECC",
                  max_speed |-> "DDR5-6400+", slots_estimated |-> "8+ slots"]
        v == Lower(cpu_vendor)
    IN  IF Contains(<<"i","n","t","e","l">>, v)
        THEN (IF current_ram_gb >= 16
              THEN [band EXCEPT !.memory_type = "DDR4/DDR5 (Intel)"] ELSE band)
        ELSE IF Contains(<<"a","m","d">>, v)
        THEN (IF current_ram_gb >= 16
              THEN [band EXCEPT !.memory_type = "DDR4/DDR5 (AMD)"] ELSE band)
        ELSE band

\* info.get(key, default)
Get(info, key, default) == IF key \in DOMAIN info THEN info[key] ELSE default

\* lines 161-188
MemoryStep(info, h, f) ==
    LET groups == << [ram_total_gb |-> h.mem_total, ram_used_gb |-> h.mem_used,
                      ram_available_gb |-> h.mem_total - h.mem_used,
                      ram_free_gb |-> h.mem_total - h.mem_used,
                      ram_percent |-> h.mem_percent,
                      ram_cached_gb |-> 0, ram_buffers_gb |-> 0],
                     [memory_capabilities |->
                        get_memory_capabilities(h.mem_total, Get(info, "cpu_vendor", <<>>))],
                     [swap_total_gb |-> h.swap_total, swap_used_gb |-> h.swap_used,
                      swap_free_gb |-> h.swap_total - h.swap_used,
                      swap_percent |-> IF h.swap_total = 0 THEN 0
                                       ELSE (h.swap_used * 100) \div h.swap_total] >>
        failAt == CASE f = "virtual_memory" -> 1
                    [] f = "swap_memory"    -> 3
                    [] OTHER                -> 0
    IN  TryExcept(info, groups, failAt, KindOf(f), StepCatch("memory"),
                  [ram_total_gb |-> 0, ram_used_gb |-> 0, ram_available_gb |-> 0,
                   ram_percent |-> 0, swap_total_gb |-> 0, swap_used_gb |-> 0,
                   swap_percent |-> 0, memory_capabilities |-> <<>>])

\* a wrong variant of get_storage_capabilities: the 1000 GB tier left out
\* (StorageBandsBySize must reject it)
StorageCapabilitiesThreeTiers(current_storage_gb) ==
    IF current_storage_gb <= 500
    THEN [max_capacity |-> "8-16 TB", interface_types |-> <<"SATA III", "M.2 NVMe">>,
          max_drives |-> "2-4 drives"]
    ELSE IF current_storage_gb <= 2000
    THEN [max_capacity |-> "32-64 TB",
          interface_types |-> <<"SATA III", "M.2 NVMe", "PCIe 4.0", "U.2">>,
          max_drives |-> "6-8 drives"]
    ELSE [max_capacity |-> "64+ TB",
          interface_types |-> <<"SATA III", "M.2 NVMe", "PCIe 5.0", "U.2", "Enterprise SAS">>,
          max_drives |-> "8+ drives"]

\* lines 524-553
get_storage_capabilities(current_storage_gb) ==
    IF current_storage_gb <= 500
    THEN [max_capacity |-> "8-16 TB", interface_types |-> <<"SATA III", "M.2 NVMe">>,
          max_drives |-> "2-4 drives"]
    ELSE IF current_storage_gb <= 1000
    THEN [max_capacity |-> "16-32 TB",
          interface_types |-> <<"SATA III", "M.2 NVMe", "PCIe 4.0">>,
          max_drives |-> "4-6 drives"]
    ELSE IF current_storage_gb <= 2000
    THEN [max_capacity |-> "32-64 TB",
          interface_types |-> <<"SATA III", "M.2 NVMe", "PCIe 4.0", "U.2">>,
          max_drives |-> "6-8 drives"]
    ELSE [max_capacity |-> "64+ TB",
          interface_types |-> <<"SATA III", "M.2 NVMe", "PCIe 5.0", "U.2", "Enterprise SAS">>,
          max_drives |-> "8+ drives"]

\* line 203: removable and optical media, on Windows
SkippedPartition(h, p) ==
    /\ h.platform = "Windows"
    /\ \/ StartsWith(p.device, <<"A", ":">>)
       \/ StartsWith(p.device, <<"B", ":">>)
       \/ Contains(<<"c","d","r","o","m">>, p.opts)

\* line 211
DeviceName(h, p) ==
    IF h.platform = "Windows"
    THEN Remove(Remove(p.device, <<":">>), <<"\\">>)
    ELSE LastComponent(p.device, "/")

\* a wrong variant of MatchIo: the last counter whose label contains the name
\* (IoStatsFromFirstMatch must reject it)
RECURSIVE MatchIoLast(_, _, _)
MatchIoLast(name, counters, i) ==
    IF i > Len(counters) THEN None
    ELSE LET later == MatchIoLast(name, counters, i + 1)
         IN  IF later # None THEN later
             ELSE IF Contains(Lower(name), Lower(counters[i].label))
                  THEN [read_bytes |-> counters[i].read_bytes,
                        write_bytes |-> counters[i].write_bytes,
                        read_count |-> counters[i].read_count,
                        write_count |-> counters[i].write_count]
                  ELSE None

\* lines 213-222: the first counter, in enumeration order, whose label contains the name
RECURSIVE MatchIo(_, _, _)
MatchIo(name, counters, i) ==
    IF i > Len(counters) THEN None
    ELSE IF Contains(Lower(name), Lower(counters[i].label))
         THEN [read_bytes |-> counters[i].read_bytes,
               write_bytes |-> counters[i].write_bytes,
               read_count |-> counters[i].read_count,
               write_count |-> counters[i].write_count]
         ELSE MatchIo(name, counters, i + 1)

\* the handler inside the partition loop, line 235
PartitionCatch == OsErrors

\* lines 199-236: the loop from partition i on; acc is [devices, total, exc]
RECURSIVE StorageLoop(_, _, _, _)
StorageLoop(h, f, i, acc) ==
    IF i > Len(h.partitions) THEN acc
    ELSE
      LET p == h.partitions[i]
          usage_fails == f = "disk_usage_" \o ToString(i)
          counted == [acc EXCEPT !.total = @ + p.total]
          body_kind == CASE f \in {"disk_io", "disk_io_denied"} -> KindOf(f)
                         [] p.total = 0 -> "ZeroDivisionError"
                         [] OTHER       -> "none"
          device_info == [device |-> p.device, mountpoint |-> p.mountpoint,
                          fstype |-> p.fstype, total_gb |-> p.total,
                          used_gb |-> p.used, free_gb |-> p.free,
                          percent |-> (p.used * 100) \div p.total,
                          io_stats |-> MatchIo(DeviceName(h, p), h.disk_io, 1)]
      IN  IF SkippedPartition(h, p) THEN StorageLoop(h, f, i + 1, acc)
          ELSE IF usage_fails
               THEN IF KindOf(f) \in PartitionCatch
                    THEN StorageLoop(h, f, i + 1, acc)
                    ELSE [acc EXCEPT !.exc = KindOf(f)]
          ELSE IF body_kind # "none"
               THEN IF body_kind \in PartitionCatch
                    THEN StorageLoop(h, f, i + 1, counted)
                    ELSE [counted EXCEPT !.exc = body_kind]
          ELSE StorageLoop(h, f, i + 1,
                           [counted EXCEPT !.devices = Append(@, device_info)])

\* lines 193-242
StorageStep(info, h, f) ==
    LET start == [devices |-> <<>>, total |-> 0, exc |-> "none"]
        r == IF f = "disk_partitions"
             THEN [start EXCEPT !.exc = KindOf(f)]
             ELSE StorageLoop(h, f, 1, start)
        listed == Upd(info, [storage_devices |-> r.devices, storage_capabilities |-> <<>>])
    IN  IF r.exc = "none"
        THEN [info |-> Upd(listed, [storage_capabilities |-> get_storage_capabilities(r.total)]),
              exc |-> "none"]
        ELSE IF r.exc \in StepCatch("storage")
             THEN [info |-> listed, exc |-> "none"]
             ELSE [info |-> listed, exc |-> r.exc]

\* whether the graphics step reaches the fallback, line 264
ReachesGpuFallback(h, f) ==
    /\ ~(h.has_gputil /\ f = "getGPUs")
    /\ ~h.has_gputil \/ Len(h.gpus) = 0

\* whether get_gpu_info runs an external program
UsesGpuHelper(h, f) == ReachesGpuFallback(h, f) /\ h.platform \in {"Windows", "Linux"}

\* lines 555-581: the adapter name, <<>> for None; f is the behaviour of the helper
get_gpu_info(h, f) ==
    IF h.platform \notin {"Windows", "Linux"} THEN [info |-> <<>>, exc |-> "none"]
    ELSE IF f = "nonzero" THEN [info |-> <<>>, exc |-> "none"]
    ELSE LET r == TryExcept(<<>>, <<[name |-> h.helper_gpu]>>,
                            IF f \in {"missing", "hang"} THEN 1 ELSE 0,
                            KindOf(f), Bare, <<>>)
         IN  [info |-> Get(r.info, "name", <<>>), exc |-> r.exc]

GpuRecord(gpu) ==
    [name |-> gpu.name, memory_total |-> gpu.memoryTotal, memory_used |-> gpu.memoryUsed,
     memory_free |-> gpu.memoryFree, load |-> gpu.load * 100,
     temperature |-> gpu.temperature, uuid |-> "GPU-0", driver_version |-> "Unknown"]

\* lines 247-269
GraphicsStep(info, h, f) ==
    LET base == Upd(info, [gpu_devices |-> <<>>])
        queried == IF h.has_gputil
                   THEN [i \in 1..Len(h.gpus) |-> GpuRecord(h.gpus[i])]
                   ELSE <<>>
        fallback == get_gpu_info(h, f)
        named == IF Len(fallback.info) > 0 /\ fallback.info[1] # "Unknown Graphics Card"
                 THEN <<[name |-> fallback.info[1]]>>
                 ELSE <<>>
        kind == IF h.has_gputil /\ f = "getGPUs" THEN KindOf(f)
                ELSE IF Len(queried) = 0 THEN fallback.exc
                ELSE "none"
    IN  IF kind # "none"
        THEN [info |-> base, exc |-> IF kind \in StepCatch("graphics") THEN "none" ELSE kind]
        ELSE IF Len(queried) > 0
             THEN [info |-> Upd(base, [gpu_devices |-> queried]), exc |-> "none"]
             ELSE [info |-> Upd(base, [gpu_devices |-> named]), exc |-> "none"]

\* line 283
SkippedInterface(name) ==
    \/ Lower(name) \in {<<"l","o">>, <<"l","o","o","p","b","a","c","k">>}
    \/ Contains(<<"v","i","r","t","u","a","l">>, Lower(name))

\* lines 296-307: the entries of interface_info['addresses'] among addrs[1..n]
RECURSIVE ListedAddresses(_, _)
ListedAddresses(addrs, n) ==
    IF n = 0 THEN <<>>
    ELSE LET a == addrs[n]
             rest == ListedAddresses(addrs, n - 1)
         IN  IF Contains(FamInet, a.family) /\ ~StartsWith(a.address, <<"1","2","7",".">>)
             THEN Append(rest, [type |-> "IPv4", address |-> a.address,
                                netmask |-> a.netmask, broadcast |-> None])
             ELSE rest

IsLinkAddress(a) ==
    /\ ~(Contains(FamInet, a.family) /\ ~StartsWith(a.address, <<"1","2","7",".">>))
    /\ Contains(FamLink, a.family) \/ Contains(FamPacket, a.family)

\* lines 287-321
InterfaceInfo(nic) ==
    LET base == [name |-> nic.name, is_up |-> nic.isup,
                 speed |-> IF nic.speed > 0 THEN nic.speed ELSE 0,
                 mtu |-> nic.mtu,
                 addresses |-> ListedAddresses(nic.addrs, Len(nic.addrs))]
        links == {i \in 1..Len(nic.addrs) : IsLinkAddress(nic.addrs[i])}
        mac == IF links = {} THEN <<>>
               ELSE [mac_address |->
                        nic.addrs[CHOOSE i \in links : \A j \in links : j <= i].address]
        io == IF nic.has_io
              THEN [io_stats |-> [bytes_sent |-> 1, bytes_recv |-> 2,
                                  packets_sent |-> 10, packets_recv |-> 20,
                                  errors_in |-> 0, errors_out |-> 0,
                                  drops_in |-> 0, drops_out |-> 0]]
              ELSE <<>>
    IN  Upd(Upd(base, mac), io)

\* lines 281-324: the interfaces listed among nics[1..n]
RECURSIVE ListedInterfaces(_, _)
ListedInterfaces(nics, n) ==
    IF n = 0 THEN <<>>
    ELSE LET nic == nics[n]
             rest == ListedInterfaces(nics, n - 1)
         IN  IF SkippedInterface(nic.name) \/ ~nic.has_stats THEN rest
             ELSE IF Len(InterfaceInfo(nic).addresses) > 0
                  THEN Append(rest, InterfaceInfo(nic))
                  ELSE rest

\* lines 274-336
NetworkStep(info, h, f) ==
    LET base == Upd(info, [network_interfaces |-> <<>>, network_stats |-> <<>>])
        listed == Upd(base, [network_interfaces |-> ListedInterfaces(h.nics, Len(h.nics))])
        stats == [total_bytes_sent |-> h.net_total.bytes_sent,
                  total_bytes_recv |-> h.net_total.bytes_recv,
                  total_packets_sent |-> h.net_total.packets_sent,
                  total_packets_recv |-> h.net_total.packets_recv]
        caught == KindOf(f) \in StepCatch("network")
    IN  CASE f = "net_if_addrs" ->
                [info |-> base, exc |-> IF caught THEN "none" ELSE KindOf(f)]
          [] f = "net_io_total" ->
                [info |-> listed, exc |-> IF caught THEN "none" ELSE KindOf(f)]
          [] OTHER ->
                [info |-> Upd(listed, [network_stats |-> stats]), exc |-> "none"]

\* a wrong variant of TimeLeft: the minutes not reduced modulo the hour
\* (TimeLeftFormat must reject it)
TimeLeftTotalMinutes(secsleft) ==
    IF secsleft # -2 /\ secsleft > 0
    THEN <<ToString(secsleft \div 3600) \o "h " \o ToString(secsleft \div 60) \o "m">>
    ELSE <<>>

\* lines 344-348: <<text>>, or <<>> for None; psutil.POWER_TIME_UNLIMITED is -2
TimeLeft(secsleft) ==
    IF secsleft # -2 /\ secsleft > 0
    THEN <<ToString(secsleft \div 3600) \o "h " \o ToString((secsleft % 3600) \div 60) \o "m">>
    ELSE <<>>

\* lines 341-357
BatteryStep(info, h, f) ==
    LET b == h.battery
        groups == << IF h.has_battery
                     THEN [battery |->
                             [percent |-> b.percent, plugged |-> b.power_plugged,
                              time_left |-> TimeLeft(b.secsleft),
                              time_left_seconds |->
                                 IF b.secsleft # -2 THEN <<b.secsleft>> ELSE <<>>]]
                     ELSE <<>> >>
    IN  TryExcept(info, groups, IF f = "sensors_battery" THEN 1 ELSE 0, KindOf(f),
                  StepCatch("battery"), [battery |-> None])

\* the last group of the enumeration with this name (a later dict entry replaces an earlier)
GroupNamed(groups, name) ==
    groups[CHOOSE i \in 1..Len(groups) :
              /\ groups[i].name = name
              /\ Len(groups[i].readings) > 0
              /\ \A j \in 1..Len(groups) :
                    groups[j].name = name /\ Len(groups[j].readings) > 0 => j <= i]

NonEmptyGroups(groups) ==
    {groups[i].name : i \in {j \in 1..Len(groups) : Len(groups[j].readings) > 0}}

\* a wrong variant of LabelOr: the label as supplied by the OS, even when empty
\* (SensorReadingsGrouped must reject it)
LabelAsSupplied(label, name) == label

\* sensor.label or sensor_name
LabelOr(label, name) == IF label = "" THEN name ELSE label

\* lines 363-374
Temperatures(groups) ==
    [n \in NonEmptyGroups(groups) |->
        LET rs == GroupNamed(groups, n).readings
        IN  [i \in 1..Len(rs) |->
                [label |-> LabelOr(rs[i].label, n), current |-> rs[i].current,
                 high |-> rs[i].high, critical |-> rs[i].critical]]]

\* lines 362-376
ThermalStep(info, h, f) ==
    TryExcept(info, <<[temperatures |-> Temperatures(h.temps)]>>,
              IF f = "sensors_temperatures" THEN 1 ELSE 0, KindOf(f),
              StepCatch("thermal"), [temperatures |-> <<>>])

\* lines 380-389
Fans(groups) ==
    [n \in NonEmptyGroups(groups) |->
        LET rs == GroupNamed(groups, n).readings
        IN  [i \in 1..Len(rs) |->
                [label |-> LabelOr(rs[i].label, n), current |-> rs[i].current]]]

\* lines 379-391
FansStep(info, h, f) ==
    TryExcept(info, <<[fans |-> Fans(h.fans)]>>,
              IF f = "sensors_fans" THEN 1 ELSE 0, KindOf(f),
              StepCatch("fans"), [fans |-> <<>>])

CountStatus(procs, status) == Cardinality({i \in 1..Len(procs) : procs[i] = status})

\* lines 396-403
ProcessStep(info, h, f) ==
    LET groups == << [process_count |-> Len(h.procs)],
                     [process_running |-> CountStatus(h.procs, "running")],
                     [process_sleeping |-> CountStatus(h.procs, "sleeping")] >>
        failAt == CASE f = "pids"          -> 1
                    [] f = "iter_running"  -> 2
                    [] f = "iter_sleeping" -> 3
                    [] OTHER               -> 0
    IN  TryExcept(info, groups, failAt, KindOf(f), StepCatch("process"),
                  [process_count |-> 0, process_running |-> 0, process_sleeping |-> 0])

\* round(x, 2) of a figure given in thousandths, in hundredths
Round2(thousandths) == (thousandths + 5) \div 10

\* lines 406-415
LoadAvgStep(info, h, f) ==
    IF ~h.has_loadavg THEN [info |-> info, exc |-> "none"]
    ELSE TryExcept(info,
                   <<[load_average |-> [m1 |-> Round2(h.loadavg[1]),
                                        m5 |-> Round2(h.loadavg[2]),
                                        m15 |-> Round2(h.loadavg[3])]]>>,
                   IF f = "getloadavg" THEN 1 ELSE 0, KindOf(f),
                   StepCatch("loadavg"), [load_average |-> None])

\* one step of gather_system_info, by name
StepResult(step, info, h, f) ==
    CASE step = "identity"    -> IdentityStep(info, h, f)
      [] step = "uptime"      -> UptimeStep(info, h, f)
      [] step = "motherboard" -> MotherboardStep(info, h, f)
      [] step = "processor"   -> ProcessorStep(info, h, f)
      [] step = "memory"      -> MemoryStep(info, h, f)
      [] step = "storage"     -> StorageStep(info, h, f)
      [] step = "graphics"    -> GraphicsStep(info, h, f)
      [] step = "network"     -> NetworkStep(info, h, f)
      [] step = "battery"     -> BatteryStep(info, h, f)
      [] step = "thermal"     -> ThermalStep(info, h, f)
      [] step = "fans"        -> FansStep(info, h, f)
      [] step = "process"     -> ProcessStep(info, h, f)
      [] step = "loadavg"     -> LoadAvgStep(info, h, f)

\* the snapshot after the first n steps on host h under plan p
RECURSIVE GatherUpTo(_, _, _)
GatherUpTo(h, p, n) ==
    IF n = 0 THEN [info |-> <<>>, exc |-> "none"]
    ELSE CHOOSE r \in
            {IF before.exc # "none" THEN before
             ELSE StepResult(Steps[n], before.info, h, p[Steps[n]]) :
             before \in {GatherUpTo(h, p, n - 1)}} : TRUE

\* lines 37-420: what gather_system_info returns on host h under plan p
Gather(h, p) == GatherUpTo(h, p, Len(Steps))

(***************************************************************************)
(* Progress events                                                         *)
(***************************************************************************)
\* a wrong variant of ProgressOf: the checkpoints of the sensor and the process step
\* exchanged (ProgressMonotone must reject it)
ProgressOfSwapped(step) ==
    CASE step = "identity"    -> <<"Detecting operating system...", 5>>
      [] step = "uptime"      -> <<"Calculating system uptime...", 10>>
      [] step = "motherboard" -> <<"Scanning motherboard information...", 20>>
      [] step = "processor"   -> <<"Analyzing processor specifications...", 30>>
      [] step = "memory"      -> <<"Examining memory configuration...", 45>>
      [] step = "storage"     -> <<"Scanning storage devices...", 60>>
      [] step = "graphics"    -> <<"Detecting graphics hardware...", 70>>
      [] step = "network"     -> <<"Analyzing network interfaces...", 80>>
      [] step = "battery"     -> <<"Checking power management...", 85>>
      [] step = "thermal"     -> <<"Reading sensor data...", 95>>
      [] step = "process"     -> <<"Counting system processes...", 90>>
      [] step = "finalize"    -> <<"Finalizing system analysis...", 100>>
      [] OTHER                -> <<>>

\* the progress_update.emit calls of gather_system_info
ProgressOf(step) ==
    CASE step = "identity"    -> <<"Detecting operating system...", 5>>
      [] step = "uptime"      -> <<"Calculating system uptime...", 10>>
      [] step = "motherboard" -> <<"Scanning motherboard information...", 20>>
      [] step = "processor"   -> <<"Analyzing processor specifications...", 30>>
      [] step = "memory"      -> <<"Examining memory configuration...", 45>>
      [] step = "storage"     -> <<"Scanning storage devices...", 60>>
      [] step = "graphics"    -> <<"Detecting graphics hardware...", 70>>
      [] step = "network"     -> <<"Analyzing network interfaces...", 80>>
      [] step = "battery"     -> <<"Checking power management...", 85>>
      [] step = "thermal"     -> <<"Reading sensor data...", 90>>
      [] step = "process"     -> <<"Counting system processes...", 95>>
      [] step = "finalize"    -> <<"Finalizing system analysis...", 100>>
      [] OTHER                -> <<>>

ProgressEvent(step) ==
    [kind |-> "progress", message |-> ProgressOf(step)[1], percent |-> ProgressOf(step)[2]]

InfoReady == [kind |-> "info_ready", message |-> "", percent |-> 100]

\* the events a worker has emitted, after the step's progress_update.emit (if it has one)
Emitted(log, step) ==
    IF ProgressOf(step) = <<>> THEN log ELSE Append(log, ProgressEvent(step))

\* lines 687-691, the slot of progress_update: the loading widget after the
\* window's thread has handled the signal of `step` (if it emits one); the queued
\* signals are handled in the order of their emission
update_progress(widget, step) ==
    IF ProgressOf(step) = <<>> THEN widget
    ELSE [percentage |-> ProgressOf(step)[2], fresh |-> FALSE]

\* a wrong variant of RunEmits: the snapshot emitted a second time
\* (SnapshotOnceAfterProgress must reject it)
RunEmitsTwice(log) == Append(Append(log, InfoReady), InfoReady)

\* lines 33-35: run() emits the snapshot once gather_system_info has returned
RunEmits(log) == Append(log, InfoReady)

\* a wrong variant of HelperTimeout: subprocess.run called without a timeout
\* (HungHelpersDoNotStall must reject it)
NoHelperTimeout(step) == 0

\* the timeout argument of subprocess.run in seconds, 0 for none (lines 437, 457, 561, 571)
HelperTimeout(step) == IF step = "motherboard" THEN 10 ELSE 5

(***************************************************************************)
(* The worker threads                                                      *)
(***************************************************************************)
\* SystemInfoWorker() followed by start(), lines 1094-1097
NewWorker == [pc |-> "identity", info |-> <<>>, log |-> <<>>, exc |-> "none",
              delivered |-> FALSE, touched |-> {}]

\* where a worker goes after a step
NextPc(step) ==
    CASE step = "identity"    -> "uptime"
      [] step = "uptime"      -> "motherboard"
      [] step = "motherboard" -> "processor"
      [] step = "processor"   -> "memory"
      [] step = "memory"      -> "storage"
      [] step = "storage"     -> "graphics"
      [] step = "graphics"    -> "network"
      [] step = "network"     -> "battery"
      [] step = "battery"     -> "thermal"
      [] step = "thermal"     -> "fans"
      [] step = "fans"        -> "process"
      [] step = "process"     -> "loadavg"
      [] step = "loadavg"     -> "finalize"

\* worker w after the body of `step` has run on the snapshot it holds
AfterBody(w, step) ==
    CHOOSE after \in
        {[w EXCEPT !.info = r.info,
                   !.exc = r.exc,
                   !.pc = IF r.exc = "none" THEN NextPc(step) ELSE "raised"] :
         r \in {StepResult(step, w.info, host, plan[step])}} : TRUE

\* a step that runs inside the worker thread: emit, then the body
DoStep(i, step) ==
    /\ i \in 1..Len(workers)
    /\ workers[i].pc = step
    /\ workers' = [workers EXCEPT ![i] =
                      AfterBody([@ EXCEPT !.log = Emitted(@, step)], step)]
    /\ loading_widget' = update_progress(loading_widget, step)
    /\ UNCHANGED <<host, plan, is_loading, timer_active, refresh_timer, system_info, call>>

Identity(i)  == DoStep(i, "identity")
Uptime(i)    == DoStep(i, "uptime")
Processor(i) == DoStep(i, "processor")
Memory(i)    == DoStep(i, "memory")
Storage(i)   == DoStep(i, "storage")
Network(i)   == DoStep(i, "network")
Battery(i)   == DoStep(i, "battery")
Thermal(i)   == DoStep(i, "thermal")
FansRead(i)  == DoStep(i, "fans")
Process(i)   == DoStep(i, "process")
LoadAvg(i)   == DoStep(i, "loadavg")

\* a step that may wait for an external program: emit, then either the body or
\* the wait in subprocess.run
StartHelperStep(i, step, uses_helper, waiting) ==
    /\ i \in 1..Len(workers)
    /\ workers[i].pc = step
    /\ workers' = [workers EXCEPT ![i] =
                      IF uses_helper
                      THEN [@ EXCEPT !.log = Emitted(@, step), !.pc = waiting]
                      ELSE AfterBody([@ EXCEPT !.log = Emitted(@, step)], step)]
    /\ loading_widget' = update_progress(loading_widget, step)
    /\ UNCHANGED <<host, plan, is_loading, timer_active, refresh_timer, system_info, call>>

Motherboard(i) == StartHelperStep(i, "motherboard", UsesBoardHelper(host), "mb_helper")
Graphics(i) ==
    StartHelperStep(i, "graphics", UsesGpuHelper(host, plan["graphics"]), "gpu_helper")

\* subprocess.run returns or raises at once: the program ended or could not be started
HelperReturns(i, step, waiting) ==
    /\ i \in 1..Len(workers)
    /\ workers[i].pc = waiting
    /\ plan[step] # "hang"
    /\ workers' = [workers EXCEPT ![i] = AfterBody(@, step)]
    /\ UNCHANGED <<host, plan, is_loading, timer_active, refresh_timer, loading_widget, system_info, call>>

\* the program hangs: subprocess.run kills it when the timeout expires and raises
HelperTimesOut(i, step, waiting) ==
    /\ i \in 1..Len(workers)
    /\ workers[i].pc = waiting
    /\ plan[step] = "hang"
    /\ HelperTimeout(step) > 0
    /\ workers' = [workers EXCEPT ![i] = AfterBody(@, step)]
    /\ UNCHANGED <<host, plan, is_loading, timer_active, refresh_timer, loading_widget, system_info, call>>

BoardHelperReturns(i)  == HelperReturns(i, "motherboard", "mb_helper")
BoardHelperTimesOut(i) == HelperTimesOut(i, "motherboard", "mb_helper")
GpuHelperReturns(i)    == HelperReturns(i, "graphics", "gpu_helper")
GpuHelperTimesOut(i)   == HelperTimesOut(i, "graphics", "gpu_helper")

\* lines 417-420
Finalize(i) ==
    /\ i \in 1..Len(workers)
    /\ workers[i].pc = "finalize"
    /\ workers' = [workers EXCEPT ![i] =
                      [@ EXCEPT !.log = Emitted(@, "finalize"), !.pc = "emit"]]
    /\ loading_widget' = update_progress(loading_widget, "finalize")
    /\ UNCHANGED <<host, plan, is_loading, timer_active, refresh_timer, system_info, call>>

\* line 35: the signal is queued for the window's thread
EmitInfoReady(i) ==
    /\ i \in 1..Len(workers)
    /\ workers[i].pc = "emit"
    /\ workers' = [workers EXCEPT ![i] =
                      [@ EXCEPT !.log = RunEmits(@), !.pc = "finished"]]
    /\ UNCHANGED <<host, plan, is_loading, timer_active, refresh_timer, loading_widget, system_info, call>>

WorkerStep(i) ==
    \/ Identity(i) \/ Uptime(i) \/ Motherboard(i) \/ BoardHelperReturns(i)
    \/ BoardHelperTimesOut(i) \/ Processor(i) \/ Memory(i) \/ Storage(i)
    \/ Graphics(i) \/ GpuHelperReturns(i) \/ GpuHelperTimesOut(i) \/ Network(i)
    \/ Battery(i) \/ Thermal(i) \/ FansRead(i) \/ Process(i) \/ LoadAvg(i)
    \/ Finalize(i) \/ EmitInfoReady(i)

(***************************************************************************)
(* The window                                                              *)
(***************************************************************************)
\* whether worker i is executing: started, snapshot not yet emitted
Running(i) == workers[i].pc \notin {"finished", "raised"}

\* lines 1073-1077
show_loading(widget) == [widget EXCEPT !.fresh = TRUE]

\* lines 1089-1097, called by the timer's timeout signal (line 972)
refresh_specs ==
    /\ timer_active
    /\ Len(workers) < MaxRuns
    /\ is_loading' = TRUE
    /\ loading_widget' = IF ~is_loading THEN show_loading(loading_widget) ELSE loading_widget
    /\ workers' = Append(workers, NewWorker)
    /\ UNCHANGED <<host, plan, timer_active, refresh_timer, system_info, call>>

\* a wrong variant of StartsTimer: start() called at every rendering
\* (TimerStartedOnce must reject it)
StartsTimerAlways(active) == TRUE

\* line 1086: whether show_main_content calls refresh_timer.start(30000)
StartsTimer(active) == ~active

\* lines 1099-1101 and 1487-1488 with show_main_content, lines 1079-1087:
\* the slot of info_ready, run in the window's thread
update_specs(i) ==
    /\ i \in 1..Len(workers)
    /\ workers[i].pc = "finished"
    /\ ~workers[i].delivered
    /\ system_info' = workers[i].info
    /\ is_loading' = FALSE
    /\ timer_active' = TRUE
    /\ refresh_timer' = IF StartsTimer(timer_active)
                        THEN [interval |-> 30000, starts |-> refresh_timer.starts + 1]
                        ELSE refresh_timer
    /\ workers' = [workers EXCEPT ![i].delivered = TRUE]
    /\ UNCHANGED <<host, plan, loading_widget, call>>

(***************************************************************************)
(* Specifications                                                          *)
(***************************************************************************)
\* lines 954-975: the state when MainWindow() returns, the first worker started
InitWindow ==
    /\ workers = <<NewWorker>>
    /\ is_loading = TRUE
    /\ timer_active = FALSE
    /\ refresh_timer = [interval |-> 0, starts |-> 0]
    /\ loading_widget = [percentage |-> 0, fresh |-> TRUE]
    /\ system_info = <<>>
    /\ call = NoCall

\* the window with its refresh timer, on a healthy host or with hanging helpers
Init ==
    /\ host \in Hosts
    /\ plan \in {NoFault, AllHelpersHang}
    /\ InitWindow

Next ==
    \/ \E i \in 1..MaxRuns : WorkerStep(i)
    \/ \E i \in 1..MaxRuns : update_specs(i)
    \/ refresh_specs

Spec == Init /\ [][Next]_vars

\* one collection run, from the window's construction to the first rendering,
\* under every plan of at most MaxFaults faulty steps, with all helpers hanging,
\* and with every step failing
InitRun ==
    /\ host \in Hosts
    /\ plan \in PlansUpTo(MaxFaults) \cup {AllHelpersHang, EveryStepFails}
    /\ InitWindow

NextRun ==
    \/ WorkerStep(1)
    \/ update_specs(1)

RunSpec == InitRun /\ [][NextRun]_vars

\* the behaviours of the two helper programs: each answers, exits non-zero, is
\* missing or hangs (and the GPU library may fail before the fallback is reached)
HelperPlans ==
    {[NoFault EXCEPT !["motherboard"] = m, !["graphics"] = g] :
        m \in FaultsOf("motherboard") \cup {"none"},
        g \in FaultsOf("graphics") \cup {"none"}}

InitHelpers ==
    /\ host \in Hosts
    /\ plan \in HelperPlans
    /\ InitWindow

\* one collection run under every behaviour of the helper programs; the worker
\* thread is scheduled, and the timeout of subprocess.run expires
FairHelperSpec == InitHelpers /\ [][NextRun]_vars /\ WF_vars(WorkerStep(1))

(***************************************************************************)
(* Properties                                                              *)
(***************************************************************************)
IsProgress(e) == e.kind = "progress"
Progress(i) == SelectSeq(workers[i].log, IsProgress)
Finished(i) == workers[i].pc = "finished"
\* gather_system_info is over: it returned or an exception left it
GatherOver(i) == workers[i].pc \in {"emit", "finished", "raised"}

\* per host, the snapshot of a run in which every source answers
FailureFree == [h \in Hosts |-> Gather(h, NoFault).info]

\* the snapshot of the failure-free run on the same host
Reference == FailureFree[host]

\* per step, the names it can write, over all hosts and all behaviours of its sources
FieldTable ==
    [s \in StepSet |->
        UNION {DOMAIN StepResult(s, <<>>, h, f).info :
                  h \in Hosts, f \in FaultsOf(s) \cup {"none"}}]

FieldsOf(step) == FieldTable[step]

\* field k of snapshot a is what it is in snapshot b: present in both with the
\* same value, or absent from both
SameField(a, b, k) ==
    /\ k \in DOMAIN a <=> k \in DOMAIN b
    /\ k \in DOMAIN a => a[k] = b[k]

\* C1: at most one collection run is active at any time: no worker is started
\* while an earlier one has not yet emitted its snapshot.
AtMostOneRunActive ==
    \A i, j \in 1..Len(workers) : i # j => ~(Running(i) /\ Running(j))

\* C2: in every run, whichever sources fail, the progress percents are integers
\* in 0..100, never decrease, and the last one is 100 when the run is over.
ProgressMonotone ==
    \A i \in 1..Len(workers) :
        LET ps == Progress(i)
        IN  /\ \A k \in 1..Len(ps) : ps[k].percent \in 0..100
            /\ \A k \in 1..(Len(ps) - 1) : ps[k].percent <= ps[k + 1].percent
            /\ GatherOver(i) => Len(ps) > 0 /\ ps[Len(ps)].percent = 100

\* a run with failing sources is over and emitted its twelve checkpoints
ProgressWitness ==
    \E i \in 1..Len(workers) :
        /\ Finished(i)
        /\ FaultySteps(plan) # {}
        /\ Len(Progress(i)) = 12

\* C3: each run emits info_ready at most once, exactly once when it has finished,
\* after the progress event with percent 100, and no progress event follows it.
SnapshotOnceAfterProgress ==
    \A i \in 1..Len(workers) :
        LET log == workers[i].log
            ready == {k \in 1..Len(log) : log[k].kind = "info_ready"}
        IN  /\ Cardinality(ready) <= 1
            /\ Finished(i) <=> Cardinality(ready) = 1
            /\ \A k \in ready :
                  /\ \E j \in 1..(k - 1) : IsProgress(log[j]) /\ log[j].percent = 100
                  /\ \A j \in (k + 1)..Len(log) : ~IsProgress(log[j])

\* two runs of one window have both emitted their snapshot
SnapshotWitness ==
    /\ Len(workers) >= 2
    /\ Finished(1) /\ Finished(2)
    /\ workers[2].log[Len(workers[2].log)].kind = "info_ready"

\* C4: gather_system_info never raises: whichever sources and helpers fail, no
\* exception leaves it, and when it is over it has returned the snapshot.
GatherNeverRaises ==
    \A i \in 1..Len(workers) :
        /\ workers[i].exc = "none"
        /\ workers[i].pc # "raised"
        /\ GatherOver(i) => workers[i].info = Gather(host, plan).info

\* a run in which every step failed has delivered its snapshot to the window
NeverRaisesWitness ==
    /\ plan = EveryStepFails
    /\ Finished(1) /\ workers[1].delivered
    /\ system_info = workers[1].info

\* C5: when a single step has a failing source, every field owned by another
\* step has exactly the value of the failure-free run on the same host.
StepFailureIsolation ==
    \A i \in 1..Len(workers) : \A s \in StepSet :
        Finished(i) /\ FaultySteps(plan) = {s} =>
            \A t \in StepSet \ {s} : \A k \in FieldsOf(t) :
                SameField(workers[i].info, Reference, k)

\* the fields of the steps not named in `degraded` are those of the failure-free run
OnlyDegrades(info, degraded) ==
    \A t \in StepSet \ degraded : \A k \in FieldsOf(t) : SameField(info, Reference, k)

\* C6: every started run eventually emits its snapshot, also when every helper
\* program hangs: the timeouts end the waits, only the motherboard and graphics
\* fields are degraded, and the later steps run.
HungHelpersDoNotStall ==
    /\ \A i \in 1..MaxRuns : (i <= Len(workers)) ~> (i <= Len(workers) /\ Finished(i))
    /\ [](\A i \in 1..Len(workers) :
            Finished(i) /\ plan = AllHelpersHang =>
                /\ OnlyDegrades(workers[i].info, {"motherboard", "graphics"})
                /\ workers[i].info["motherboard"] =
                      [manufacturer |-> "Unknown", product |-> "Unknown",
                       version |-> "Unknown", serial |-> "Unknown"])

\* a run has finished on a host where both helper programs were started and hung
HungHelpersWitness ==
    /\ plan = AllHelpersHang
    /\ UsesBoardHelper(host) /\ UsesGpuHelper(host, "hang")
    /\ Finished(1)
    /\ workers[1].info["gpu_devices"] = <<>>

\* C7: the set of top-level field names of a snapshot is fixed: it is that of
\* the failure-free snapshot of every host, whichever steps fail.
FixedFieldNames ==
    \A i \in 1..Len(workers) :
        Finished(i) =>
            \A h \in Hosts : DOMAIN workers[i].info = DOMAIN FailureFree[h]

\* the fields a source supplies
SourceFields(step, fault) ==
    CASE fault = "system"         -> {"os_name", "os_version", "os_build", "os_full", "os_edition"}
      [] fault = "win32_edition"  -> {"os_edition", "os_full"}
      [] fault = "hostname"       -> {"hostname"}
      [] fault = "machine"        -> {"machine_type"}
      [] fault = "getlogin"       -> {"username"}
      [] fault = "cpuinfo"        -> {"processor", "cpu_vendor", "cpu_family", "cpu_model",
                                      "cpu_stepping", "cpu_flags", "cpu_cache_l1",
                                      "cpu_cache_l2", "cpu_cache_l3"}
      [] fault = "cpu_count"      -> {"cpu_cores_physical", "cpu_cores_logical"}
      [] fault = "cpu_freq"       -> {"cpu_freq_current", "cpu_freq_max", "cpu_freq_min"}
      [] fault = "cpu_percent"    -> {"cpu_usage", "cpu_usage_per_core"}
      [] fault = "cpu_times"      -> {"cpu_times"}
      [] fault = "virtual_memory" -> FieldsOf("memory") \ {"swap_total_gb", "swap_used_gb",
                                                           "swap_free_gb", "swap_percent"}
      [] fault = "swap_memory"    -> {"swap_total_gb", "swap_used_gb", "swap_free_gb",
                                      "swap_percent"}
      [] fault = "pids"           -> {"process_count"}
      [] fault = "iter_running"   -> {"process_running"}
      [] fault = "iter_sleeping"  -> {"process_sleeping"}
      [] OTHER                    -> FieldsOf(step)

\* C8: when the source of one field fails, every other field of the snapshot,
\* those of the same step included, keeps its collected value.
FieldFailureIsolation ==
    \A i \in 1..Len(workers) : \A s \in StepSet :
        Finished(i) /\ FaultySteps(plan) = {s} =>
            \A t \in StepSet : \A k \in FieldsOf(t) \ SourceFields(s, plan[s]) :
                SameField(workers[i].info, Reference, k)

\* C9: when computing one of the three process counts fails, the other two
\* hold their computed values.
ProcessCountsIsolated ==
    \A i \in 1..Len(workers) :
        Finished(i) /\ FaultySteps(plan) = {"process"} =>
            LET info == workers[i].info
            IN  /\ plan["process"] # "pids" => info["process_count"] = Len(host.procs)
                /\ plan["process"] # "iter_running" =>
                      info["process_running"] = CountStatus(host.procs, "running")
                /\ plan["process"] # "iter_sleeping" =>
                      info["process_sleeping"] = CountStatus(host.procs, "sleeping")

\* the step that collects field k took its except branch
CollectionFailed(k) ==
    CASE k = "cpu_usage" ->
            \/ plan["processor"] \in {"cpu_count", "cpu_percent", "cpu_times"}
            \/ plan["processor"] = "cpuinfo" /\ host.has_cpuinfo
      [] k \in {"ram_percent", "ram_total_gb"} -> plan["memory"] # "none"
      [] k = "process_count" -> plan["process"] # "none"

\* the values a successful collection of field k produces on some host
MeasuredValues(k) == {FailureFree[h][k] : h \in Hosts}

\* C10: the value a numeric field gets when its collection fails differs from
\* every value, 0 included, that a successful collection can produce.
FailureDistinctFromZero ==
    \A i \in 1..Len(workers) :
        \A k \in {"cpu_usage", "ram_percent", "ram_total_gb", "process_count"} :
            Finished(i) /\ CollectionFailed(k) =>
                workers[i].info[k] \notin MeasuredValues(k)

(***************************************************************************)
(* Two runs in sequence and the identity of the objects of a snapshot      *)
(***************************************************************************)
MaxMutations == 1   \* changes a holder of the first snapshot makes to it

\* the snapshot fields that hold a list or a dict
ContainerFields ==
    {"motherboard", "cpu_flags", "cpu_usage_per_core", "cpu_times",
     "memory_capabilities", "storage_devices", "storage_capabilities", "gpu_devices",
     "network_interfaces", "network_stats", "battery", "temperatures", "fans",
     "load_average"}

\* the mutable objects of a snapshot: the dict itself ("info") and its containers
ObjectNames == {"info"} \cup ContainerFields

\* the mutable objects snapshot `info` consists of
SnapshotObjects(info) ==
    {"info"} \cup {k \in ContainerFields \cap DOMAIN info :
                      IF k = "battery" THEN info[k] # None ELSE TRUE}

\* a wrong variant of ObjectId: the capability record kept in one dict that every
\* call fills in place (SnapshotsIndependent must reject it)
ObjectIdShared(i, o) == IF o = "memory_capabilities" THEN <<0, o>> ELSE <<i, o>>

\* the identity of part o of the snapshot of run i: the dict and every container
\* is created by a literal evaluated inside the call, so each run has its own
ObjectId(i, o) == <<i, o>>

\* a holder of the snapshot of run i changes its part o in place, after the
\* snapshot was emitted and the next run has begun: every snapshot that holds
\* the same object sees the change
MutateSnapshot(i, o) ==
    /\ i \in 1..Len(workers)
    /\ workers[i].pc = "finished"
    /\ Len(workers) > i
    /\ o \in SnapshotObjects(workers[i].info)
    /\ o \notin workers[i].touched
    /\ Cardinality(workers[i].touched) < MaxMutations
    /\ workers' = [j \in 1..Len(workers) |->
                      [workers[j] EXCEPT !.touched =
                          @ \cup {p \in ObjectNames : ObjectId(j, p) = ObjectId(i, o)}]]
    /\ UNCHANGED <<host, plan, is_loading, timer_active, refresh_timer, loading_widget, system_info, call>>

\* the timer's timeout after the first run was rendered, lines 972 and 1089-1097
StartSecondRun ==
    /\ Len(workers) = 1
    /\ workers[1].pc = "finished"
    /\ refresh_specs

NextSequential ==
    \/ \E i \in 1..2 : WorkerStep(i)
    \/ \E i \in 1..2 : update_specs(i)
    \/ StartSecondRun
    \/ \E o \in ObjectNames : MutateSnapshot(1, o)

\* two collection runs of one window, one after the other, and a holder of the
\* first snapshot that changes it while the second run is under way
SequentialSpec == Init /\ [][NextSequential]_vars

MaxRam == 40        \* total RAM in GB
MaxStorage == 3000  \* total storage in GB

\* a computation about to be invoked
Pending(op, args) == [op |-> op, args |-> args, returned |-> FALSE, result |-> <<>>]

\* vendor_id_raw texts, 'Unknown' (line 111) and '' (the default of line 172) included
VendorStrings ==
    {<<>>, UnknownText, VendorIntel, VendorAmd, VendorApple, AmdPlain,
     <<"I","N","T","E","L">>, <<"a","m","d">>}

MemoryCalls ==
    {Pending("get_memory_capabilities", <<r, v>>) : r \in 0..MaxRam, v \in VendorStrings}

StorageCalls == {Pending("get_storage_capabilities", <<s>>) : s \in 0..MaxStorage}

CallMemoryCapabilities ==
    /\ call.op = "get_memory_capabilities"
    /\ ~call.returned
    /\ call' = [call EXCEPT !.returned = TRUE,
                            !.result = get_memory_capabilities(call.args[1], call.args[2])]
    /\ UNCHANGED <<host, plan, workers, is_loading, timer_active, refresh_timer, loading_widget, system_info>>

CallStorageCapabilities ==
    /\ call.op = "get_storage_capabilities"
    /\ ~call.returned
    /\ call' = [call EXCEPT !.returned = TRUE,
                            !.result = get_storage_capabilities(call.args[1])]
    /\ UNCHANGED <<host, plan, workers, is_loading, timer_active, refresh_timer, loading_widget, system_info>>

\* get_memory_capabilities has returned
MemoryReturned == call.op = "get_memory_capabilities" /\ call.returned

\* get_storage_capabilities has returned
StorageReturned == call.op = "get_storage_capabilities" /\ call.returned

\* C12: the capacity, speed and slot estimates are a step function of the total
\* RAM r with inclusive upper thresholds 4, 8, 16 and 32, whatever the vendor;
\* 6 GB gives the 64 GB tier with type DDR4 and 20 GB the 256 GB tier.
MemoryBandsByRam ==
    MemoryReturned =>
        LET r == call.args[1]
            c == call.result
        IN  /\ <<c.max_capacity_gb, c.max_speed, c.slots_estimated>> =
                  CASE r <= 4             -> <<"32 GB", "DDR4-3200", "2-4 slots">>
                    [] r > 4 /\ r <= 8    -> <<"64 GB", "DDR4-3200", "2-4 slots">>
                    [] r > 8 /\ r <= 16   -> <<"128 GB", "DDR4-3600/DDR5-4800", "4 slots">>
                    [] r > 16 /\ r <= 32  -> <<"256 GB", "DDR5-5600", "4-8 slots">>
                    [] r > 32             -> <<"512+ GB", "DDR5-6400+", "8+ slots">>
            /\ r = 6 => c.max_capacity_gb = "64 GB" /\ c.memory_type = "DDR4"
            /\ r = 20 => c.max_capacity_gb = "256 GB"

\* the estimate for 8 GB on a machine with an Intel processor is that of the 64 GB tier
MemoryBandsWitness ==
    /\ MemoryReturned
    /\ call.args = <<8, VendorIntel>>
    /\ call.result.max_capacity_gb = "64 GB"

\* the memory standard of the band of r GB, before the vendor adjustment
BandType(r) ==
    IF r <= 8 THEN "DDR4" ELSE IF r <= 32 THEN "DDR4/DDR5" ELSE "DDR5/ECC"

\* C13: the vendor string changes no field of the estimate other than
\* memory_type, and memory_type is the band's standard, at most with the vendor
\* appended as an annotation.
VendorOnlyAnnotates ==
    MemoryReturned =>
        LET r == call.args[1]
            c == call.result
        IN  /\ [c EXCEPT !.memory_type = BandType(r)] =
                  get_memory_capabilities(r, <<>>)
            /\ c.memory_type \in {BandType(r), BandType(r) \o " (Intel)",
                                  BandType(r) \o " (AMD)"}

\* C14: the storage estimate is a step function of the total storage s with
\* inclusive upper thresholds 500, 1000 and 2000; 750 GB gives the 16-32 TB tier
\* with PCIe 4.0 among its interfaces, 3000 GB the 64+ TB tier.
StorageBandsBySize ==
    StorageReturned =>
        LET s == call.args[1]
            c == call.result
            types == {c.interface_types[i] : i \in 1..Len(c.interface_types)}
        IN  /\ c.max_capacity =
                  CASE s <= 500              -> "8-16 TB"
                    [] s > 500 /\ s <= 1000  -> "16-32 TB"
                    [] s > 1000 /\ s <= 2000 -> "32-64 TB"
                    [] s > 2000              -> "64+ TB"
            /\ s > 500 /\ s <= 1000 => "PCIe 4.0" \in types
            /\ s = 750 => c.max_capacity = "16-32 TB"
            /\ s = 3000 => c.max_capacity = "64+ TB"

\* the estimate for exactly 1000 GB is still that of the 16-32 TB tier
StorageBandsWitness ==
    /\ StorageReturned
    /\ call.args = <<1000>>
    /\ call.result.max_capacity = "16-32 TB"
    /\ call.result.max_drives = "4-6 drives"

(***************************************************************************)
(* The network step on its own                                             *)
(***************************************************************************)
MaxAddrs == 2       \* addresses per interface

Lo0Name == <<"l","o","0">>
LoopbackName == <<"L","o","o","p","b","a","c","k">>
Loop6 == <<":",":","1">>
\* str(addr.family) where the interpreter prints an enum member as its number
FamInetNumber == <<"2">>
FamPacketNumber == <<"1","7">>

NicNames == {LoName, LoopbackName, Lo0Name, EthZero, VBoxName}

AddrPool ==
    {Addr(FamInet, LoopAddr), Addr(FamInet, LanAddr), Addr(FamInet6, Loop6),
     Addr(FamInet6, Addr6), Addr(FamLink, MacAddr), Addr(FamPacket, MacAddr)}

\* the address lists of at most MaxAddrs distinct addresses
AddrLists ==
    UNION {{s \in [1..n -> AddrPool] : \A i, j \in 1..n : s[i] = s[j] => i = j} :
              n \in 0..MaxAddrs}

NicPool ==
    {Nic(name, isup, 1000, 1500, addrs, TRUE) :
        name \in NicNames, isup \in BOOLEAN, addrs \in AddrLists}
    \cup {Nic(EthZero, TRUE, 1000, 1500,
              <<Addr(FamInetNumber, LanAddr), Addr(FamPacketNumber, MacAddr)>>, TRUE)}

\* an interface that is always listed
WifiNic == Nic(WifiName, TRUE, 300, 1500, <<Addr(FamInet, LanAddr)>>, TRUE)

NetworkCalls ==
    {Pending("network_step", <<nics>>) :
        nics \in {<<x>> : x \in NicPool} \cup {<<WifiNic, x>> : x \in NicPool}}

\* lines 274-336 on a host whose OS reports the interfaces call.args[1]
CallNetworkStep ==
    /\ call.op = "network_step"
    /\ ~call.returned
    /\ call' = [call EXCEPT
                   !.returned = TRUE,
                   !.result = NetworkStep(<<>>, [LinuxDesktop EXCEPT !.nics = call.args[1]],
                                          "none").info["network_interfaces"]]
    /\ UNCHANGED <<host, plan, workers, is_loading, timer_active, refresh_timer, loading_widget, system_info>>

NetworkReturned == call.op = "network_step" /\ call.returned

\* the interface the OS reported under this name
ReportedAs(name) ==
    LET nics == call.args[1]
    IN  nics[CHOOSE i \in 1..Len(nics) : nics[i].name = name]

IsIPv4(a) == a.family \in {FamInet, FamInetNumber}

IsLoopbackAddress(a) == StartsWith(a.address, <<"1","2","7",".">>) \/ a.address = Loop6

IsListableIPv4(a) == IsIPv4(a) /\ ~StartsWith(a.address, <<"1","2","7",".">>)

\* C15: no listed interface is named 'lo' or 'loopback' or has 'virtual' in its
\* name in any letter case, and every listed interface has at least one address
\* that is not a loopback address.
InterfacesFiltered ==
    NetworkReturned =>
        \A k \in 1..Len(call.result) :
            LET name == call.result[k].name
                nic == ReportedAs(name)
            IN  /\ Lower(name) \notin {LoName, Lower(LoopbackName)}
                /\ ~Contains(<<"v","i","r","t","u","a","l">>, Lower(name))
                /\ \E i \in 1..Len(nic.addrs) : ~IsLoopbackAddress(nic.addrs[i])

\* the address texts of a list of address records
AddressesOf(entries) == [i \in 1..Len(entries) |-> entries[i].address]

\* C16: the addresses list of every listed interface holds exactly the
\* interface's IPv4 addresses that do not start with '127.', in the order
\* reported; addresses of other families are not listed, and mac_address, when
\* present, is a link-layer address of the interface.
ListsOnlyIPv4 ==
    NetworkReturned =>
        \A k \in 1..Len(call.result) :
            LET e == call.result[k]
                nic == ReportedAs(e.name)
            IN  /\ AddressesOf(e.addresses) =
                      AddressesOf(SelectSeq(nic.addrs, IsListableIPv4))
                /\ "mac_address" \in DOMAIN e =>
                      \E i \in 1..Len(nic.addrs) :
                          /\ nic.addrs[i].family \in {FamLink, FamPacket, FamPacketNumber}
                          /\ nic.addrs[i].address = e.mac_address

(***************************************************************************)
(* The battery step on its own                                             *)
(***************************************************************************)
MaxSecsLeft == 7300   \* seconds of battery time left

\* psutil.POWER_TIME_UNLIMITED (-2), psutil.POWER_TIME_UNKNOWN (-1), and durations
BatteryCalls == {Pending("battery_step", <<s>>) : s \in (-2)..MaxSecsLeft}

\* lines 341-357 on a host whose battery reports secsleft = call.args[1]
CallBatteryStep ==
    /\ call.op = "battery_step"
    /\ ~call.returned
    /\ call' = [call EXCEPT
                   !.returned = TRUE,
                   !.result = BatteryStep(<<>>,
                                 [WinLaptop EXCEPT !.battery.secsleft = call.args[1]],
                                 "none").info["battery"]]
    /\ UNCHANGED <<host, plan, workers, is_loading, timer_active, refresh_timer, loading_widget, system_info>>

BatteryReturned == call.op = "battery_step" /\ call.returned

\* C17: time_left is '<h>h <m>m', with h the whole hours of secsleft and m the
\* whole minutes of the rest, when secsleft is not the unlimited marker and is
\* positive (5400 gives '1h 30m'), and None otherwise.
TimeLeftFormat ==
    BatteryReturned =>
        LET s == call.args[1]
            time_left == call.result.time_left
        IN  /\ s # -2 /\ s > 0 =>
                  \E h \in 0..(s \div 3600), m \in 0..59 :
                      /\ s - 3600 * h - 60 * m \in 0..59
                      /\ time_left = <<ToString(h) \o "h " \o ToString(m) \o "m">>
            /\ s = -2 \/ s <= 0 => time_left = <<>>
            /\ s = 5400 => time_left = <<"1h 30m">>

\* ninety minutes left are reported as '1h 30m'
TimeLeftWitness ==
    /\ BatteryReturned
    /\ call.args = <<5400>>
    /\ call.result.time_left = <<"1h 30m">>
    /\ call.result.time_left_seconds = <<5400>>

(***************************************************************************)
(* The steps backed by helper programs                                     *)
(***************************************************************************)
\* GPUtil is installed, answers and reports an adapter
DedicatedYields ==
    host.has_gputil /\ plan["graphics"] # "getGPUs" /\ Len(host.gpus) > 0

\* the platform has an inventory command, and it runs and names an adapter
FallbackYields ==
    /\ host.platform \in {"Windows", "Linux"}
    /\ plan["graphics"] \notin {"nonzero", "missing", "hang"}
    /\ Len(host.helper_gpu) > 0

\* C18: when the GPU library is unavailable, raises or reports no adapter, the
\* inventory command is consulted: gpu_devices is empty only if neither source
\* yields an adapter.
GpuFallbackConsulted ==
    \A i \in 1..Len(workers) :
        Finished(i) /\ workers[i].info["gpu_devices"] = <<>> =>
            ~DedicatedYields /\ ~FallbackYields

AllUnknownBoard ==
    [manufacturer |-> "Unknown", product |-> "Unknown", version |-> "Unknown",
     serial |-> "Unknown"]

\* C19: on a platform other than Windows and Linux no inventory program is
\* started and the motherboard record is all 'Unknown'; it is all 'Unknown' too
\* when the platform's inventory program exits non-zero, times out or is missing.
UnknownBoardWithoutHelper ==
    \A i \in 1..Len(workers) :
        /\ workers[i].pc = "mb_helper" => host.platform \in {"Windows", "Linux"}
        /\ /\ "motherboard" \in DOMAIN workers[i].info
           /\ \/ host.platform \notin {"Windows", "Linux"}
              \/ plan["motherboard"] \in {"nonzero", "missing", "hang"}
           => workers[i].info["motherboard"] = AllUnknownBoard

\* a run on a macOS host has finished with an all-unknown motherboard record
\* while every other source answered
UnknownBoardWitness ==
    /\ host.platform = "Darwin"
    /\ plan = NoFault
    /\ Finished(1)
    /\ workers[1].info["motherboard"] = AllUnknownBoard
    /\ workers[1].info["hostname"] = "mac"

(***************************************************************************)
(* The thermal and the fan step on their own                               *)
(***************************************************************************)
MaxReadings == 2    \* readings per sensor group

ReadingPool ==
    {[label |-> l, current |-> c, high |-> 80, critical |-> 100] :
        l \in {"", "Core 0"}, c \in {45, 50}}

ReadingLists == UNION {[1..n -> ReadingPool] : n \in 0..MaxReadings}

\* what psutil.sensors_temperatures() / sensors_fans() return: a dict from
\* group name to readings, enumerated in insertion order
SensorGroups ==
    {<<>>}
    \cup {<<[name |-> "coretemp", readings |-> a]>> : a \in ReadingLists}
    \cup {<<[name |-> "coretemp", readings |-> a], [name |-> "acpitz", readings |-> b]>> :
             a \in ReadingLists, b \in ReadingLists}

SensorCalls ==
    {Pending(op, <<g>>) : op \in {"thermal_step", "fans_step"}, g \in SensorGroups}

\* lines 362-376 on a host whose OS reports the temperature groups call.args[1]
CallThermalStep ==
    /\ call.op = "thermal_step"
    /\ ~call.returned
    /\ call' = [call EXCEPT
                   !.returned = TRUE,
                   !.result = ThermalStep(<<>>, [LinuxDesktop EXCEPT !.temps = call.args[1]],
                                          "none").info["temperatures"]]
    /\ UNCHANGED <<host, plan, workers, is_loading, timer_active, refresh_timer, loading_widget, system_info>>

\* lines 379-391 on a host whose OS reports the fan groups call.args[1]
CallFansStep ==
    /\ call.op = "fans_step"
    /\ ~call.returned
    /\ call' = [call EXCEPT
                   !.returned = TRUE,
                   !.result = FansStep(<<>>, [LinuxDesktop EXCEPT !.fans = call.args[1]],
                                       "none").info["fans"]]
    /\ UNCHANGED <<host, plan, workers, is_loading, timer_active, refresh_timer, loading_widget, system_info>>

SensorsReturned == call.op \in {"thermal_step", "fans_step"} /\ call.returned

\* C20: every reading of a non-empty group appears, in order, under the group's
\* name, labelled with the label of the OS when that is non-empty and with the
\* group's name otherwise; a group without readings produces no key.
SensorReadingsGrouped ==
    SensorsReturned =>
        LET groups == call.args[1]
            shown == call.result
        IN  /\ DOMAIN shown \subseteq {groups[g].name : g \in 1..Len(groups)}
            /\ \A g \in 1..Len(groups) :
                  LET name == groups[g].name
                      rs == groups[g].readings
                  IN  IF Len(rs) = 0 THEN name \notin DOMAIN shown
                      ELSE /\ name \in DOMAIN shown
                           /\ Len(shown[name]) = Len(rs)
                           /\ \A i \in 1..Len(rs) :
                                 /\ shown[name][i].current = rs[i].current
                                 /\ shown[name][i].label =
                                       IF rs[i].label # "" THEN rs[i].label ELSE name

\* two temperature readings of one group, the second without a label, are shown
\* in order beside a group that has none
SensorReadingsWitness ==
    /\ call.op = "thermal_step" /\ call.returned
    /\ Len(call.args[1]) = 2
    /\ call.args[1][2].readings = <<>>
    /\ DOMAIN call.result = {"coretemp"}
    /\ Len(call.result["coretemp"]) = 2
    /\ call.result["coretemp"][1] =
          [label |-> "Core 0", current |-> 50, high |-> 80, critical |-> 100]
    /\ call.result["coretemp"][2] =
          [label |-> "coretemp", current |-> 45, high |-> 80, critical |-> 100]

(***************************************************************************)
(* Progress events and the steps they announce                             *)
(***************************************************************************)
\* the percents of the progress_update.emit calls in program order
PercentSequence == <<5, 10, 20, 30, 45, 60, 70, 80, 85, 90, 95, 100>>

StepNumber(step) == CHOOSE n \in 1..Len(Steps) : Steps[n] = step

\* how many of the steps have run their body when a worker is at pc
BodiesRun(pc) ==
    CASE pc \in StepSet -> StepNumber(pc) - 1
      [] pc = "mb_helper"  -> StepNumber("motherboard") - 1
      [] pc = "gpu_helper" -> StepNumber("graphics") - 1
      [] pc \in {"finalize", "emit", "finished"} -> Len(Steps)
      [] OTHER -> 0

\* C21: every collection step emits a progress event of its own before it
\* executes: a step whose body has run has a progress event, which is in the
\* log; and the percents emitted so far are an initial part of 5, 10, 20, 30,
\* 45, 60, 70, 80, 85, 90, 95, 100, whichever steps fail.
ProgressBeforeEveryStep ==
    \A i \in 1..Len(workers) :
        LET ps == Progress(i)
        IN  /\ Len(ps) <= Len(PercentSequence)
            /\ \A k \in 1..Len(ps) : ps[k].percent = PercentSequence[k]
            /\ \A n \in 1..BodiesRun(workers[i].pc) :
                  /\ ProgressOf(Steps[n]) # <<>>
                  /\ \E k \in 1..Len(ps) : ps[k] = ProgressEvent(Steps[n])

(***************************************************************************)
(* The storage step on its own                                             *)
(***************************************************************************)
MaxParts == 2       \* mounted partitions

DevSda == <<"/","d","e","v","/","s","d","a">>
DevLoop == <<"/","d","e","v","/","l","o","o","p","0">>

\* what psutil.disk_partitions() and disk_usage() may report of one partition
PartPool ==
    {Part(DevSda1, "/", "ext4", OptsRw, 400, 100),
     Part(DevSdb1, "/data", "ext4", OptsRw, 2000, 900),
     Part(DevSda, "/mnt", "ext4", OptsRw, 120, 20),
     Part(DevLoop, "/snap", "squashfs", OptsRo, 0, 0),
     Part(DevC, "C:", "NTFS", OptsFixed, 750, 300),
     Part(DevD, "D:", "UDF", OptsCdrom, 4, 4)}

PartLists == UNION {[1..n -> PartPool] : n \in 0..MaxParts}

\* what psutil.disk_io_counters(perdisk=True) may report, in enumeration order
CounterLists ==
    {<<>>,
     LinuxDesktop.disk_io,
     <<LinuxDesktop.disk_io[3], LinuxDesktop.disk_io[2], LinuxDesktop.disk_io[1]>>,
     WinLaptop.disk_io}

\* the sources of the partition loop that may fail
LoopFaults == {"none", "disk_usage_1", "disk_usage_2", "disk_io", "disk_io_denied"}

StorageStepCalls ==
    {Pending("storage_step", <<b, ps, cs, f>>) :
        b \in {"Windows", "Linux"}, ps \in PartLists, cs \in CounterLists,
        f \in LoopFaults}

\* the host of a storage_step call
StorageHost ==
    [(IF call.args[1] = "Windows" THEN WinLaptop ELSE LinuxDesktop) EXCEPT
        !.partitions = call.args[2], !.disk_io = call.args[3]]

\* lines 193-242 on the platform call.args[1] with the partitions call.args[2] and
\* the I/O counters call.args[3], the source call.args[4] failing
CallStorageStep ==
    /\ call.op = "storage_step"
    /\ ~call.returned
    /\ call' = [call EXCEPT
                   !.returned = TRUE,
                   !.result = StorageStep(<<>>, StorageHost, call.args[4]).info]
    /\ UNCHANGED <<host, plan, workers, is_loading, timer_active, refresh_timer, loading_widget, system_info>>

StorageStepReturned == call.op = "storage_step" /\ call.returned

\* the usage or the I/O collection of partition i fails
CollectionFails(parts, f, i) ==
    \/ f = "disk_usage_" \o ToString(i)
    \/ f \in {"disk_io", "disk_io_denied"}
    \/ parts[i].total = 0

\* the devices of the partitions kept among parts[1..n], in enumeration order
RECURSIVE DevicesKept(_, _, _)
DevicesKept(parts, kept, n) ==
    IF n = 0 THEN <<>>
    ELSE IF n \in kept
         THEN Append(DevicesKept(parts, kept, n - 1), parts[n].device)
         ELSE DevicesKept(parts, kept, n - 1)

\* C22: a partition whose usage or I/O collection fails in any way, a volume of
\* zero total capacity included, is omitted alone: storage_devices lists every
\* other non-skipped partition in enumeration order and storage_capabilities
\* is derived.
FailedPartitionOmittedAlone ==
    StorageStepReturned =>
        LET parts == call.args[2]
            f == call.args[4]
            devs == call.result["storage_devices"]
            kept == {i \in 1..Len(parts) :
                        /\ ~SkippedPartition(StorageHost, parts[i])
                        /\ ~CollectionFails(parts, f, i)}
        IN  /\ [i \in 1..Len(devs) |-> devs[i].device] = DevicesKept(parts, kept, Len(parts))
            /\ call.result["storage_capabilities"] # <<>>

NotDriveMark(c) == c \notin {":", "\\"}

\* the device name of a volume as the claim describes it
VolumeName(platform, device) ==
    IF platform = "Windows" THEN SelectSeq(device, NotDriveMark)
    ELSE LastComponent(device, "/")

\* C26: for every listed volume, io_stats is taken from the first I/O-counter
\* label, in enumeration order, whose lower-cased text contains the volume's
\* lower-cased device name, and is None exactly when no label contains it.
IoStatsFromFirstMatch ==
    StorageStepReturned =>
        LET counters == call.args[3]
            devs == call.result["storage_devices"]
        IN  \A d \in 1..Len(devs) :
               LET name == Lower(VolumeName(call.args[1], devs[d].device))
                   matching == {k \in 1..Len(counters) :
                                   Contains(name, Lower(counters[k].label))}
                   first == CHOOSE k \in matching : \A j \in matching : k <= j
               IN  IF matching = {} THEN devs[d].io_stats = None
                   ELSE /\ devs[d].io_stats # None
                        /\ devs[d].io_stats.read_bytes = counters[first].read_bytes
                        /\ devs[d].io_stats.write_bytes = counters[first].write_bytes
                        /\ devs[d].io_stats.read_count = counters[first].read_count
                        /\ devs[d].io_stats.write_count = counters[first].write_count

\* /dev/sda is listed with the counters of 'sda1', the first of the two labels
\* that contain 'sda', beside a volume that no label names
IoStatsWitness ==
    /\ StorageStepReturned
    /\ call.args[1] = "Linux"
    /\ call.args[3] = <<LinuxDesktop.disk_io[3], LinuxDesktop.disk_io[2], LinuxDesktop.disk_io[1]>>
    /\ Len(call.result["storage_devices"]) = 2
    /\ call.result["storage_devices"][1].device = DevSda
    /\ call.result["storage_devices"][1].io_stats =
          [read_bytes |-> 2, write_bytes |-> 2, read_count |-> 20, write_count |-> 20]
    /\ call.result["storage_devices"][2].device = DevC
    /\ call.result["storage_devices"][2].io_stats = None

RECURSIVE SumTotals(_, _)
SumTotals(devs, n) == IF n = 0 THEN 0 ELSE SumTotals(devs, n - 1) + devs[n].total_gb

\* C27: the storage capability band of a snapshot is that of the sum of the
\* total capacities of exactly the volumes listed in its storage_devices: a
\* partition that is skipped or omitted contributes nothing.
BandFromListedVolumes ==
    StorageStepReturned /\ call.result["storage_capabilities"] # <<>> =>
        LET devs == call.result["storage_devices"]
        IN  call.result["storage_capabilities"] =
                get_storage_capabilities(SumTotals(devs, Len(devs)))

(***************************************************************************)
(* List-producing steps that fail part-way                                 *)
(***************************************************************************)
\* C23: when the storage, graphics or network step fails part-way, its list is
\* empty and not partially filled, as its aggregate field is.  The storage step
\* has failed exactly when storage_capabilities is empty, the network step
\* exactly when network_stats is empty, the graphics step when getGPUs raises.
FailedStepListsEmpty ==
    \A i \in 1..Len(workers) :
        Finished(i) =>
            LET info == workers[i].info
            IN  /\ info["storage_capabilities"] = <<>> => info["storage_devices"] = <<>>
                /\ info["network_stats"] = <<>> => info["network_interfaces"] = <<>>
                /\ host.has_gputil /\ plan["graphics"] = "getGPUs" =>
                      info["gpu_devices"] = <<>>

(***************************************************************************)
(* The battery record                                                      *)
(***************************************************************************)
\* C30: in every battery record, time_left_seconds is None or a non-negative
\* number of seconds, and time_left is not None exactly when time_left_seconds
\* is a positive number.
SecondsLeftNonNegative ==
    BatteryReturned =>
        LET seconds == call.result.time_left_seconds
        IN  /\ seconds = <<>> \/ seconds[1] >= 0
            /\ call.result.time_left # <<>> <=> (seconds # <<>> /\ seconds[1] > 0)

(***************************************************************************)
(* The processor name                                                      *)
(***************************************************************************)
\* no source of the processor step other than the detailed one fails
OnlyDetailedSourceMayFail == plan["processor"] \in {"none", "cpuinfo", "cpu_freq"}

\* the detailed CPU-identification source is installed and answers
DetailedSourceSucceeds == host.has_cpuinfo /\ plan["processor"] # "cpuinfo"

\* C24: whenever the detailed CPU-identification source is unavailable or fails,
\* the processor field is the normalized OS-reported processor string; when it
\* succeeds, the field is its normalized brand string.
ProcessorFallsBackToOsString ==
    \A i \in 1..Len(workers) :
        Finished(i) /\ OnlyDetailedSourceMayFail =>
            workers[i].info["processor"] =
                IF DetailedSourceSucceeds
                THEN CleanProcessorName(host.brand)
                ELSE CleanProcessorName(host.os_processor)

\* raw processor strings are made of at most MaxPieces of these pieces
MaxPieces == 3

NamePieces ==
    {<<"C","o","r","e"," ">>, <<" ","i","7">>, <<" ","\t">>, <<"(","R",")">>,
     <<"(","T","M",")">>, <<"(","t","m",")">>, <<"(">>, <<"R",")">>}

RECURSIVE RawNames(_)
RawNames(n) ==
    IF n = 0 THEN {<<>>}
    ELSE LET shorter == RawNames(n - 1)
         IN  shorter \cup {s \o p : s \in shorter, p \in NamePieces}

CleanCalls == {Pending("clean_processor_name", <<raw>>) : raw \in RawNames(MaxPieces)}

\* lines 116-118 on the raw string call.args[1]
CallCleanProcessorName ==
    /\ call.op = "clean_processor_name"
    /\ ~call.returned
    /\ call' = [call EXCEPT !.returned = TRUE,
                            !.result = CleanProcessorName(call.args[1])]
    /\ UNCHANGED <<host, plan, workers, is_loading, timer_active, refresh_timer, loading_widget, system_info>>

CleanReturned == call.op = "clean_processor_name" /\ call.returned

\* C25: the normalized processor name has no leading or trailing whitespace, no
\* run of two or more whitespace characters and none of the markers '(R)',
\* '(TM)', '(tm)', and normalizing it again changes nothing.
NormalizedNameIsClean ==
    CleanReturned =>
        LET name == call.result
        IN  /\ Len(name) > 0 => ~IsSpace(name[1]) /\ ~IsSpace(name[Len(name)])
            /\ \A i \in 1..(Len(name) - 1) : ~(IsSpace(name[i]) /\ IsSpace(name[i + 1]))
            /\ ~Contains(<<"(","R",")">>, name)
            /\ ~Contains(<<"(","T","M",")">>, name)
            /\ ~Contains(<<"(","t","m",")">>, name)
            /\ CleanProcessorName(name) = name

(***************************************************************************)
(* The window: the refresh timer and the loading screen                    *)
(***************************************************************************)
\* update_specs has completed at least once: a snapshot has been rendered
Rendered == \E i \in 1..Len(workers) : workers[i].delivered

\* C28: the refresh timer is never active before the first snapshot has been
\* rendered; the first completion of update_specs starts it with a period of
\* 30000 ms; it is started at most once and never stopped; and every timeout
\* starts a new collection run, the only way a run is started after the first.
TimerStartedOnce ==
    /\ [](~Rendered => ~timer_active /\ refresh_timer.starts = 0)
    /\ [](Rendered => /\ timer_active
                      /\ refresh_timer.interval = 30000
                      /\ refresh_timer.starts = 1)
    /\ [][timer_active => timer_active']_vars
    /\ [][refresh_specs => workers' = Append(workers, NewWorker)]_vars
    /\ [][Len(workers') # Len(workers) => timer_active /\ refresh_specs]_vars

\* a second snapshot has been rendered and the timer, started at the first
\* rendering, is still running
TimerWitness ==
    /\ Len(workers) >= 2
    /\ workers[1].delivered /\ workers[2].delivered
    /\ timer_active
    /\ refresh_timer = [interval |-> 30000, starts |-> 1]

\* C29: is_loading is true whenever some worker is still executing, and between
\* one show_loading and the following show_main_content the percents delivered
\* to LoadingWidget.update_progress never decrease.
LoadingWhileCollecting ==
    /\ []((\E i \in 1..Len(workers) : Running(i)) => is_loading)
    /\ [][is_loading /\ is_loading' /\ ~loading_widget.fresh /\ ~loading_widget'.fresh =>
             loading_widget'.percentage >= loading_widget.percentage]_vars

(***************************************************************************)
(* The specification of the computations invoked on their own              *)
(***************************************************************************)
Calls == MemoryCalls \cup StorageCalls \cup NetworkCalls \cup BatteryCalls
         \cup SensorCalls \cup StorageStepCalls \cup CleanCalls

\* no window: one computation is about to be invoked on one input
InitCalls ==
    /\ host = LinuxDesktop
    /\ plan = NoFault
    /\ workers = <<>>
    /\ is_loading = FALSE
    /\ timer_active = FALSE
    /\ refresh_timer = [interval |-> 0, starts |-> 0]
    /\ loading_widget = [percentage |-> 0, fresh |-> TRUE]
    /\ system_info = <<>>
    /\ call \in Calls

NextCalls ==
    \/ CallMemoryCapabilities
    \/ CallStorageCapabilities
    \/ CallNetworkStep
    \/ CallBatteryStep
    \/ CallThermalStep
    \/ CallFansStep
    \/ CallStorageStep
    \/ CallCleanProcessorName

CallSpec == InitCalls /\ [][NextCalls]_vars

====
